---------------------------- MODULE Spec2Model ----------------------------
(***************************************************************************)
(* A model of the tool execution pipeline of the ALE OmniSwitch server:    *)
(* the command policy (policy.py), the SSH executor (ssh_runner.py), the   *)
(* tool handlers (tools/*.py) and the transports (main.py, mcp_sse.py).    *)
(*                                                                         *)
(* Eleven specifications share one set of variables:                       *)
(*   SpecPolicy  sanitize_command as a pure function of (command, policy)  *)
(*   SpecRun     one call of SSHRunner.run, step by step                   *)
(*   SpecCall    one tool call on either transport: tools_call or          *)
(*               handle_tools_call -> call_tool -> handler ->              *)
(*               sanitize_command / runner.run -> response                 *)
(*   SpecHosts   concurrent updates of the known-hosts file                *)
(*   SpecOutput  what cli.readonly, ping and traceroute return of the      *)
(*               device's output                                           *)
(*   SpecSse     one request on the SSE endpoint and its stream            *)
(*   SpecZone    the credentials of a host by zone (zone_auth.py)          *)
(*   SpecHealth  parse_show_health and the status it rolls up              *)
(*   SpecOspf    the OSPF neighbors and issues of the routing audit        *)
(*   SpecInventory  concurrent calls on the InventoryStore                 *)
(*   SpecCrawl   one LLDP crawl of autodiscover_alcatel_switches           *)
(*                                                                         *)
(* Text is modelled as a sequence of character codes.  CLI verbs are       *)
(* abbreviated to their first letter and topics to two letters ("show      *)
(* chassis" is "s ch"), so that the policy's regular expressions stay      *)
(* literal prefixes.                                                       *)
(***************************************************************************)
EXTENDS Integers, Sequences, FiniteSets, TLC

VARIABLES
    \* ---- command policy (policy.py)
    command,        \* the raw command handed to sanitize_command
    policy,         \* the CompiledCommandPolicy in force
    sanitized,      \* what sanitize_command did: NoResult, a value or a ValueError
    ppc,            \* "idle" | "input" | "done"
    \* ---- SSH executor (ssh_runner.py)
    device,         \* the Device handed to run: username, auth, jump
    runner,         \* SSHRunner fields: default username/auth, cfg.pre_commands
    zone_creds,     \* zone_resolver.get_primary_credentials(host) yields a pair
    environ,        \* the names defined in os.environ
    rpc,            \* position inside run
    username,       \* local: what _resolve_username returned
    auth,           \* local: what _resolve_auth returned
    jump_client,    \* local: run holds a connected jump client
    client,         \* local: run holds a connected device client
    pre_done,       \* pre-commands executed so far
    net,            \* network events so far, in order
    raw_stdout,     \* what the device wrote to stdout
    raw_stderr,     \* what the device wrote to stderr
    raised,         \* the exception in flight or leaving run, "none" if none
    failed_at,      \* where it was raised: <<session, step>>
    result,         \* the SSHResult returned, NoResult if none
    \* ---- one tool call (main.py, mcp_sse.py, tools/*.py)
    transport,      \* "unary": POST /v1/tools/call | "sse": tools/call on /mcp/sse
    require_authz_context,  \* st.env.require_authz_context
    context,        \* the RequestContext of the call
    tool,           \* req.tool
    args,           \* req.args, as far as the handlers look at them
    cpc,            \* "idle" | "tools_call" | "call_tool" | "handler" | "except" |
                    \* "unhandled" | "responded"
    steps,          \* the handler's commands and pauses, in program order
    ip,             \* the step the handler is at
    trace,          \* what the handler did so far: rejections, runs, sleeps
    commands_executed,  \* the handler's commands_executed list
    call_raised,    \* the exception leaving call_tool, "none" if none
    response,       \* the answer to the caller, NoResult if none
    \* ---- the known-hosts file (ssh_runner.py)
    save_known_hosts_file,  \* AutoAddAndSavePolicy.known_hosts_file: "None" | "path"
    known_hosts,    \* the file: [exists, text], text as bytes
    known_hosts0,   \* the file before the first call
    known_hosts_lock,   \* _known_hosts_lock: the thread holding it, 0 if free
    hpc,            \* per thread: position inside missing_host_key
    hostname,       \* per thread: the host whose key the call learned
    host_keys,      \* per thread: client._host_keys of the call's own client
    lines,          \* per thread: local lines of _update_known_hosts_file
    wrote,          \* per thread: the write-back succeeded
    order,          \* the threads in the order they took the lock
    \* ---- what a handler returns of the device's output (tools/cli.py, diag.py)
    out_tool,       \* the tool whose handler ran the command
    command_policy, \* cfg.command_policy: strip_ansi and redactions
    res,            \* the SSHResult of the run: stdout and stderr
    returned,       \* the handler's dict: stdout, stderr, redacted; NoResult if none
    opc,            \* "idle" | "ran" | "returned"
    \* ---- one POST /mcp/sse (mcp_sse.py)
    sse_request,    \* the request: client ip, Authorization, body, method, id, params
    sse_config,     \* allowed_ips and api_key of the endpoint
    spc,            \* "idle" | "endpoint" | "stream" | "dispatched" | "yielded" |
                    \* "error_stream" | "closed" | "refused" | "broken"
    sse_result,     \* local result of stream_response, or the exception raised
    sse_status,     \* the HTTP status of the response, 0 if none yet
    frames,         \* the data: frames written to the stream so far
    \* ---- zone credentials (zone_auth.py)
    zhost,          \* the host handed to get_credentials_for_host
    zone_config,    \* ZoneAuthResolver.zone_config: 'global' and 'zones'
    zenviron,       \* os.environ: the variables that are set
    zone_id,        \* local: what extract_zone_from_ip returned
    credentials_list,   \* local: the list being built and returned
    zpc,            \* "idle" | "global" | "zone" | "returned"
    \* ---- show health (health_parse.py)
    health_output,  \* the output of show health: its lines, and its format
    health_line,    \* loop variable: the index of the next line
    cpu_usage,      \* local of the CMM branch
    memory_usage,   \* local of the CMM branch
    health_data,    \* result: modules, overall_status, issues
    overall_status, \* handle_health_monitor: the status it reports
    mpc,            \* "idle" | "lines" | "cmm" | "parsed" | "returned"
    \* ---- routing audit (tools/audit.py, routing_parse.py)
    ospf_results,   \* results of "show ip ospf neighbor": ran, and its lines
    ospf_line,      \* loop variable of the parser: the index of the next line
    ospf_neighbors, \* the neighbors parsed so far
    neighbor_i,     \* loop variable of the issue detection
    issues,         \* the issues emitted so far
    apc,            \* "idle" | "parse" | "detect" | "returned"
    \* ---- inventory (inventory.py)
    cfg_devices,    \* cfg.devices, the list the store was built from
    devices_by_id,  \* InventoryStore._devices_by_id
    device_id_by_host,  \* InventoryStore._device_id_by_host
    inventory_lock, \* InventoryStore._lock: 0 when free, else the holder
    ipc,            \* per thread: "idle" | "waiting" | "locked"
    inv_returned,   \* per thread: what its last call returned or raised
    \* ---- LLDP crawl (autodiscover.py)
    topology,       \* per host, the hosts its LLDP neighbors resolve to
    seed,           \* the seed Device: id and host
    max_depth,      \* parameter
    max_devices,    \* parameter
    seen_hosts,     \* local set
    seen_device_ids,    \* local set
    queue,          \* local list of (device, depth)
    crawl_device,   \* loop variable: the (device, depth) dequeued last
    neighbors,      \* the neighbors of crawl_device still to go through
    created,        \* local list: the ids of the devices dequeued
    contacted,      \* the hosts the runner was asked to contact, in order
    kpc             \* "idle" | "seed" | "loop" | "neighbors" | "returned"

pvars == <<command, policy, sanitized, ppc>>
rvars == <<device, runner, zone_creds, environ, rpc, username, auth, jump_client,
           client, pre_done, net, raw_stdout, raw_stderr, raised, failed_at, result>>
cvars == <<transport, require_authz_context, context, tool, args, cpc, steps, ip,
           trace, commands_executed, call_raised, response>>
hvars == <<save_known_hosts_file, known_hosts, known_hosts0, known_hosts_lock, hpc,
           hostname, host_keys, lines, wrote, order>>
ovars == <<out_tool, command_policy, res, returned, opc>>
svars == <<sse_request, sse_config, spc, sse_result, sse_status, frames>>
zvars == <<zhost, zone_config, zenviron, zone_id, credentials_list, zpc>>
mvars == <<health_output, health_line, cpu_usage, memory_usage, health_data,
          overall_status, mpc>>
avars == <<ospf_results, ospf_line, ospf_neighbors, neighbor_i, issues, apc>>
ivars == <<cfg_devices, devices_by_id, device_id_by_host, inventory_lock, ipc,
          inv_returned>>
kvars == <<topology, seed, max_depth, max_devices, seen_hosts, seen_device_ids, queue,
          crawl_device, neighbors, created, contacted, kpc>>
vars == <<pvars, rvars, cvars, hvars, ovars, svars, zvars, mvars, avars, ivars, kvars>>

-----------------------------------------------------------------------------
(* Bounds of the model *)

\* Longest raw command drawn as an input of sanitize_command.
MaxLen == 3

\* cfg.max_output_bytes of the modelled SSHConfig (200000 by default).
MaxOutputBytes == 2

\* Most pre-commands configured in cfg.pre_commands.
MaxPre == 1

\* Largest wait_seconds a caller of aos.poe.restart asks for.
MaxWait == 2

-----------------------------------------------------------------------------
(* Text *)

NUL == 0
TAB == 9
LF == 10
CR == 13
SP == 32

\* The characters inputs are drawn from: a control character, tab, newline,
\* carriage return, space and two letters ("a", "b").
Chars == {NUL, TAB, LF, CR, SP, 97, 98}

\* str.isspace() on the ASCII range, which is what str.strip() removes.
IsSpace(ch) == ch \in {9, 10, 11, 12, 13, 28, 29, 30, 31, 32}

RECURSIVE LStrip(_)
LStrip(s) == IF s # <<>> /\ IsSpace(Head(s)) THEN LStrip(Tail(s)) ELSE s

RECURSIVE RStrip(_)
RStrip(s) ==
    IF s # <<>> /\ IsSpace(s[Len(s)]) THEN RStrip(SubSeq(s, 1, Len(s) - 1)) ELSE s

\* str.strip()
Strip(s) == RStrip(LStrip(s))

\* ch in s
Contains(s, ch) == \E i \in 1..Len(s) : s[i] = ch

\* All strings over Chars of length at most n.
StringsUpTo(n) == UNION {[1..k -> Chars] : k \in 0..n}

-----------------------------------------------------------------------------
(* Regular expressions: the policy's patterns are literal texts.           *)

\* re.Pattern.search: the pattern occurs anywhere in s.
ReSearch(p, s) ==
    \E i \in 0..(Len(s) - Len(p)) : SubSeq(s, i + 1, i + Len(p)) = p

\* An unanchored match, as re.Pattern.search would give.
ReMatchUnanchored(p, s) == ReSearch(p, s)

\* re.Pattern.match: the pattern occurs at the start of s.
ReMatch(p, s) == Len(p) <= Len(s) /\ SubSeq(s, 1, Len(p)) = p

-----------------------------------------------------------------------------
(* policy.py *)

NoResult == [kind |-> "none"]
Returned(v) == [kind |-> "value", value |-> v]
ValueError(msg) == [kind |-> "ValueError", msg |-> msg]

AnyAllow(pol, cmd) == \E i \in 1..Len(pol.allow) : ReMatch(pol.allow[i], cmd)

AnyDeny(pol, cmd) == \E i \in 1..Len(pol.deny) : ReMatch(pol.deny[i], cmd)

HasControlChar(cmd) == \E i \in 1..Len(cmd) : cmd[i] < 32 /\ cmd[i] # TAB

TooLong(pol, cmd) == Len(cmd) > pol.max_command_length

sanitize_command(cmd0, pol) ==
    IF Strip(cmd0) = <<>> THEN ValueError("Command must be a non-empty string")
    ELSE LET cmd == Strip(cmd0) IN
        IF pol.deny_multiline /\ (Contains(cmd, LF) \/ Contains(cmd, CR))
            THEN ValueError("Multiline commands are not allowed")
        ELSE IF TooLong(pol, cmd) THEN ValueError("Command too long")
        ELSE IF HasControlChar(cmd)
            THEN ValueError("Control characters are not allowed")
        ELSE IF ~AnyAllow(pol, cmd)
            THEN ValueError("Command rejected by allowlist policy")
        ELSE IF AnyDeny(pol, cmd)
            THEN ValueError("Command rejected by denylist policy")
        ELSE Returned(cmd)

-----------------------------------------------------------------------------
(* ssh_runner.py: credentials *)

\* DeviceAuth values (config.py).  A password_env or a private key's
\* passphrase_env names an environment variable.
NoAuth == [type |-> "none", env |-> "none"]
AuthPasswordEnv(name) == [type |-> "password_env", env |-> name]
AuthPasswordInline == [type |-> "password_inline", env |-> "none"]
AuthPrivateKeyFile(name) == [type |-> "private_key_file", env |-> name]

\* _resolve_username: device.username, then the zone resolver's pair, then
\* the runner's default or AOS_DEVICE_USERNAME, else SSHExecutionError.
resolve_username(dev, zone, rn, env) ==
    IF dev.username THEN Returned("device.username")
    ELSE IF zone THEN Returned("zone")
    ELSE IF rn.default_device_username \/ "AOS_DEVICE_USERNAME" \in env
        THEN Returned("default")
    ELSE [kind |-> "SSHExecutionError"]

\* _resolve_auth: device.auth, then the zone resolver's password, then the
\* runner's default auth, then AOS_DEVICE_PASSWORD, else SSHExecutionError.
resolve_auth(dev, zone, rn, env) ==
    IF dev.auth # NoAuth THEN Returned(dev.auth)
    ELSE IF zone THEN Returned(AuthPasswordInline)
    ELSE IF rn.default_device_auth # NoAuth THEN Returned(rn.default_device_auth)
    ELSE IF "AOS_DEVICE_PASSWORD" \notin env THEN [kind |-> "SSHExecutionError"]
    ELSE Returned(AuthPasswordEnv("AOS_DEVICE_PASSWORD"))

\* The secret lookup at the head of _connect (_resolve_password, and the
\* passphrase lookup of a private key): "ok" or the exception it raises.
connect_secret(a, env) ==
    IF a.type = "password_env"
        THEN (IF a.env \in env THEN "ok" ELSE "RuntimeError")
    ELSE IF a.type = "password_inline" THEN "ok"
    ELSE IF a.type = "private_key_file"
        THEN (IF a.env = "none" \/ a.env \in env THEN "ok" ELSE "RuntimeError")
    ELSE "RuntimeError"

\* _build_client: under strict host key checking the system host keys are
\* loaded (an unreadable file is an OSError) and then the configured
\* known_hosts file, whose absence is turned into a RuntimeError.
build_client(strict, system_keys_readable, known_hosts_file) ==
    IF strict
    THEN IF ~system_keys_readable THEN "OSError"
         ELSE IF known_hosts_file = "absent" THEN "RuntimeError"
         ELSE "ok"
    ELSE "ok"

\* The except clause of run: paramiko.SSHException, socket.timeout and
\* OSError become SSHExecutionError; anything else passes through.
run_except(exc) ==
    IF exc \in {"SSHException", "socket.timeout", "OSError"}
    THEN "SSHExecutionError"
    ELSE exc

\* bytes.decode("utf-8", errors="replace"), for streams of ASCII bytes, the
\* two-byte lead 0xC3 and continuation bytes: a lead with its continuation
\* is one character, any other byte above 0x7F is U+FFFD.
RECURSIVE Decode(_)
Decode(b) ==
    IF b = <<>> THEN <<>>
    ELSE IF Head(b) < 128 THEN <<Head(b)>> \o Decode(Tail(b))
    ELSE IF Head(b) = 195 /\ Len(b) >= 2 /\ b[2] \in 128..191
        THEN <<b[2] + 64>> \o Decode(Tail(Tail(b)))
    ELSE <<65533>> \o Decode(Tail(b))

\* A reader that flags the overrun but forgets to cut the data back.
read_limited_no_slice(stream, limit) ==
    LET data == SubSeq(stream, 1, IF Len(stream) < limit + 1 THEN Len(stream) ELSE limit + 1)
    IN  [text |-> Decode(data), truncated |-> Len(data) > limit]

\* A reader that asks for limit bytes only, and so never sees an overrun.
read_limited_no_probe(stream, limit) ==
    LET data == SubSeq(stream, 1, IF Len(stream) < limit THEN Len(stream) ELSE limit)
    IN  [text |-> data, truncated |-> Len(data) > limit]

\* _read_limited: read limit + 1 bytes, flag what is over the limit, keep
\* the first limit bytes, decode them.
read_limited(stream, limit) ==
    LET data == SubSeq(stream, 1, IF Len(stream) < limit + 1 THEN Len(stream) ELSE limit + 1)
        truncated == Len(data) > limit
    IN  [text |-> Decode(SubSeq(data, 1, IF Len(data) < limit THEN Len(data) ELSE limit)),
         truncated |-> truncated]

\* The jump hosts of the inventory, by name: one bastion, j1.
jump_hosts == [j1 |-> [auth |-> AuthPasswordEnv("CRED_ENV")]]

-----------------------------------------------------------------------------
(* main.py: the error code of an exception leaving call_tool *)

\* tools_call without its except KeyError clause.
ErrorCode_no_KeyError_clause(exc) ==
    IF exc = "ValueError" THEN "invalid_request"
    ELSE IF exc = "PermissionError" THEN "not_authorized"
    ELSE IF exc = "SSHExecutionError" THEN "ssh_error"
    ELSE "internal_error"

ErrorCode(exc) ==
    IF exc = "KeyError" THEN "unknown_tool"
    ELSE IF exc = "ValueError" THEN "invalid_request"
    ELSE IF exc = "PermissionError" THEN "not_authorized"
    ELSE IF exc = "SSHExecutionError" THEN "ssh_error"
    ELSE "internal_error"

-----------------------------------------------------------------------------
(* SSHRunner.run, step by step *)

\* Device output of n bytes; byte i is i, so that a prefix is recognisable.
Bytes(n) == [i \in 1..n |-> i]

\* Device output of n bytes of two-byte characters (0xC3 0xA9 repeated), so
\* that the limit can fall inside a character.
Accented(n) == [i \in 1..n |-> IF i % 2 = 1 THEN 195 ELSE 169]

\* The outputs of n bytes the device is modelled to produce.
Outputs(n) == {Bytes(n), Accented(n)}

\* A step of run leaves the other components alone.
RunFrame == UNCHANGED <<pvars, cvars, hvars, ovars, svars, zvars, mvars, avars, ivars, kvars>>

RunLocalsInit ==
    /\ username = "none"
    /\ auth = NoAuth
    /\ jump_client = FALSE
    /\ client = FALSE
    /\ pre_done = 0
    /\ net = <<>>
    /\ raw_stdout = <<>>
    /\ raw_stderr = <<>>
    /\ raised = "none"
    /\ failed_at = <<"none", "none">>
    /\ result = NoResult

RunIdle ==
    /\ device = [username |-> FALSE, auth |-> NoAuth, jump |-> "none"]
    /\ runner = [default_device_username |-> FALSE, default_device_auth |-> NoAuth,
                 pre_commands |-> 0]
    /\ zone_creds = FALSE
    /\ environ = {}
    /\ rpc = "idle"
    /\ RunLocalsInit

RunInit ==
    /\ device \in [username : BOOLEAN,
                   auth : {NoAuth, AuthPasswordEnv("CRED_ENV"), AuthPasswordInline,
                           AuthPrivateKeyFile("CRED_ENV")},
                   jump : {"none", "j1", "ghost"}]
    /\ runner \in [default_device_username : BOOLEAN,
                   default_device_auth : {NoAuth, AuthPasswordEnv("AOS_DEVICE_PASSWORD")},
                   pre_commands : 0..MaxPre]
    /\ zone_creds \in BOOLEAN
    /\ environ \in SUBSET {"AOS_DEVICE_USERNAME", "AOS_DEVICE_PASSWORD", "CRED_ENV"}
    /\ rpc = "resolve_username"
    /\ RunLocalsInit

\* An exception raised before the try block: it leaves run as it is.
RaiseOutside(step, exc) ==
    /\ raised' = exc
    /\ failed_at' = step
    /\ rpc' = "done"

\* An exception raised inside the try block: the except clause sees it next.
RaiseInside(step, exc) ==
    /\ raised' = exc
    /\ failed_at' = step
    /\ rpc' = "except"

ResolveUsername ==
    /\ rpc = "resolve_username"
    /\ LET r == resolve_username(device, zone_creds, runner, environ) IN
        IF r.kind = "value"
        THEN /\ username' = r.value
             /\ rpc' = "resolve_auth"
             /\ UNCHANGED <<raised, failed_at>>
        ELSE /\ RaiseOutside(<<"device", "resolve_username">>, r.kind)
             /\ UNCHANGED username
    /\ RunFrame
    /\ UNCHANGED <<device, runner, zone_creds, environ, auth, jump_client, client,
                   pre_done, net, raw_stdout, raw_stderr, result>>

ResolveAuth ==
    /\ rpc = "resolve_auth"
    /\ LET r == resolve_auth(device, zone_creds, runner, environ) IN
        IF r.kind = "value"
        THEN /\ auth' = r.value
             /\ rpc' = IF device.jump # "none" THEN "jump_lookup" ELSE "device_connect"
             /\ UNCHANGED <<raised, failed_at>>
        ELSE /\ RaiseOutside(<<"device", "resolve_auth">>, r.kind)
             /\ UNCHANGED auth
    /\ RunFrame
    /\ UNCHANGED <<device, runner, zone_creds, environ, username, jump_client, client,
                   pre_done, net, raw_stdout, raw_stderr, result>>

\* self._jump_hosts.get(device.jump): an unknown name is an SSHExecutionError.
JumpLookup ==
    /\ rpc = "jump_lookup"
    /\ IF device.jump \in DOMAIN jump_hosts
       THEN rpc' = "jump_connect" /\ UNCHANGED <<raised, failed_at>>
       ELSE RaiseInside(<<"jump", "lookup">>, "SSHExecutionError")
    /\ RunFrame
    /\ UNCHANGED <<device, runner, zone_creds, environ, username, auth, jump_client,
                   client, pre_done, net, raw_stdout, raw_stderr, result>>

\* _connect(cfg, host, port, username, auth) for `who`, holding the client
\* in run only when it returns.  client.connect either fails before a
\* transport exists (refused, timed out), or fails once the transport is up
\* (host key rejected, authentication failed: the client object, local to
\* _connect, is dropped without close), or succeeds.
Connect(who, a, next) ==
    \E strict \in BOOLEAN, readable \in BOOLEAN,
       known_hosts_file \in {"none", "present", "absent"},
       outcome \in {"refused", "timeout", "rejected", "ok"} :
        LET built == build_client(strict, readable, known_hosts_file)
            secret == connect_secret(a, environ)
        IN
        IF built # "ok"
            THEN RaiseInside(<<who, "build_client">>, built) /\ UNCHANGED <<net, jump_client, client>>
        ELSE IF secret # "ok"
            THEN RaiseInside(<<who, "resolve_password">>, secret) /\ UNCHANGED <<net, jump_client, client>>
        ELSE IF outcome = "refused"
            THEN /\ RaiseInside(<<who, "connect">>, "OSError")
                 /\ net' = Append(net, <<who, "connect">>)
                 /\ UNCHANGED <<jump_client, client>>
        ELSE IF outcome = "timeout"
            THEN /\ RaiseInside(<<who, "connect">>, "socket.timeout")
                 /\ net' = Append(net, <<who, "connect">>)
                 /\ UNCHANGED <<jump_client, client>>
        ELSE IF outcome = "rejected"
            THEN /\ RaiseInside(<<who, "authenticate">>, "SSHException")
                 /\ net' = net \o << <<who, "connect">>, <<who, "open">> >>
                 /\ UNCHANGED <<jump_client, client>>
        ELSE /\ net' = net \o << <<who, "connect">>, <<who, "open">> >>
             /\ jump_client' = IF who = "jump" THEN TRUE ELSE jump_client
             /\ client' = IF who = "device" THEN TRUE ELSE client
             /\ rpc' = next
             /\ UNCHANGED <<raised, failed_at>>

JumpConnect ==
    /\ rpc = "jump_connect"
    /\ Connect("jump", jump_hosts[device.jump].auth, "jump_channel")
    /\ RunFrame
    /\ UNCHANGED <<device, runner, zone_creds, environ, username, auth, pre_done,
                   raw_stdout, raw_stderr, result>>

\* _open_jump_channel: no transport is an SSHExecutionError, a refused
\* direct-tcpip channel a paramiko ChannelException (an SSHException).
OpenJumpChannel ==
    /\ rpc = "jump_channel"
    /\ \/ /\ net' = Append(net, <<"jump", "channel">>)
          /\ rpc' = "device_connect"
          /\ UNCHANGED <<raised, failed_at>>
       \/ /\ net' = Append(net, <<"jump", "channel">>)
          /\ RaiseInside(<<"jump", "channel">>, "SSHException")
       \/ /\ RaiseInside(<<"jump", "channel">>, "SSHExecutionError")
          /\ UNCHANGED net
    /\ RunFrame
    /\ UNCHANGED <<device, runner, zone_creds, environ, username, auth, jump_client,
                   client, pre_done, raw_stdout, raw_stderr, result>>

DeviceConnect ==
    /\ rpc = "device_connect"
    /\ Connect("device", auth, "pre_commands")
    /\ RunFrame
    /\ UNCHANGED <<device, runner, zone_creds, environ, username, auth, pre_done,
                   raw_stdout, raw_stderr, result>>

\* for pre in cfg.pre_commands: client.exec_command(pre)
PreCommand ==
    /\ rpc = "pre_commands"
    /\ IF pre_done < runner.pre_commands
       THEN \/ /\ pre_done' = pre_done + 1
               /\ net' = Append(net, <<"device", "pre">>)
               /\ UNCHANGED <<rpc, raised, failed_at>>
            \/ /\ RaiseInside(<<"device", "pre_command">>, "SSHException")
               /\ UNCHANGED <<pre_done, net>>
       ELSE /\ rpc' = "exec"
            /\ UNCHANGED <<pre_done, net, raised, failed_at>>
    /\ RunFrame
    /\ UNCHANGED <<device, runner, zone_creds, environ, username, auth, jump_client,
                   client, raw_stdout, raw_stderr, result>>

\* client.exec_command(command, timeout=timeout): the device then produces
\* its output, of any length up to one byte past the limit and beyond.
Exec ==
    /\ rpc = "exec"
    /\ \/ \E n \in 0..(MaxOutputBytes + 2), m \in 0..(MaxOutputBytes + 2) :
          \E out \in Outputs(n), err \in Outputs(m) :
            /\ raw_stdout' = out
            /\ raw_stderr' = err
            /\ net' = Append(net, <<"device", "exec">>)
            /\ rpc' = "read"
            /\ UNCHANGED <<raised, failed_at>>
       \/ /\ RaiseInside(<<"device", "exec">>, "SSHException")
          /\ UNCHANGED <<raw_stdout, raw_stderr, net>>
    /\ RunFrame
    /\ UNCHANGED <<device, runner, zone_creds, environ, username, auth, jump_client,
                   client, pre_done, result>>

\* The two _read_limited calls, recv_exit_status (None when it fails) and
\* the SSHResult; a read that times out raises socket.timeout.
ReadAndReturn ==
    /\ rpc = "read"
    /\ \/ \E exit_status \in {"None", "0", "1"} :
            LET out == read_limited(raw_stdout, MaxOutputBytes)
                err == read_limited(raw_stderr, MaxOutputBytes)
            IN  /\ result' = [kind |-> "SSHResult", stdout |-> out.text,
                              stderr |-> err.text, exit_status |-> exit_status,
                              truncated |-> (out.truncated \/ err.truncated)]
                /\ rpc' = "finally"
                /\ UNCHANGED <<raised, failed_at>>
       \/ /\ RaiseInside(<<"device", "read">>, "socket.timeout")
          /\ UNCHANGED result
    /\ RunFrame
    /\ UNCHANGED <<device, runner, zone_creds, environ, username, auth, jump_client,
                   client, pre_done, net, raw_stdout, raw_stderr>>

\* except (paramiko.SSHException, socket.timeout, OSError)
Except ==
    /\ rpc = "except"
    /\ raised' = run_except(raised)
    /\ rpc' = "finally"
    /\ RunFrame
    /\ UNCHANGED <<device, runner, zone_creds, environ, username, auth, jump_client,
                   client, pre_done, net, raw_stdout, raw_stderr, failed_at, result>>

\* The events of the finally block: the device client is closed if run
\* holds one, then the jump client if run holds one.
finally_closes(has_client, has_jump) ==
    (IF has_client THEN << <<"device", "close">> >> ELSE <<>>)
        \o (IF has_jump THEN << <<"jump", "close">> >> ELSE <<>>)

Finally ==
    /\ rpc = "finally"
    /\ net' = net \o finally_closes(client, jump_client)
    /\ rpc' = "done"
    /\ RunFrame
    /\ UNCHANGED <<device, runner, zone_creds, environ, username, auth, jump_client,
                   client, pre_done, raw_stdout, raw_stderr, raised, failed_at, result>>

RunNext ==
    \/ ResolveUsername
    \/ ResolveAuth
    \/ JumpLookup
    \/ JumpConnect
    \/ OpenJumpChannel
    \/ DeviceConnect
    \/ PreCommand
    \/ Exec
    \/ ReadAndReturn
    \/ Except
    \/ Finally

-----------------------------------------------------------------------------
(* tools/*.py: the commands of each handler *)

\* Character codes of the letters commands are spelled with.
Ord == [a |-> 97, c |-> 99, d |-> 100, e |-> 101, f |-> 102, h |-> 104,
        i |-> 105, l |-> 108, m |-> 109, n |-> 110, o |-> 111, p |-> 112,
        r |-> 114, s |-> 115, t |-> 116, v |-> 118, w |-> 119, x |-> 120,
        y |-> 121, one |-> 49, five |-> 53, slash |-> 47]

\* "show <topic>", the topic abbreviated to two letters.
Show(x, y) == <<Ord.s, SP, x, y>>

\* "show <topic> <argument>"
ShowArg(x, y, arg) == Show(x, y) \o <<SP>> \o arg

\* TOOL_HANDLERS
TOOL_HANDLERS ==
    {"aos.cli.readonly", "aos.diag.ping", "aos.diag.traceroute", "aos.diag.poe",
     "aos.poe.restart", "aos.device.facts", "aos.port.info", "aos.port.discover",
     "aos.interfaces.discover", "aos.vlan.audit", "aos.routing.audit",
     "aos.spantree.audit", "aos.mac.lookup", "aos.lacp.info", "aos.ntp.status",
     "aos.dhcp.relay.info", "aos.lldp.neighbors", "aos.config.backup",
     "aos.health.monitor", "aos.chassis.status"}

\* One command of a handler: the string it builds, whether it passes it
\* through sanitize_command, whether a catch-all try block surrounds the run
\* only ("run"), the sanitize call too ("both") or nothing ("none"), and
\* whether the handler lists it in commands_executed.
CmdStep(raw, sanitize, guard, listed) ==
    [kind |-> "cmd", raw |-> raw, sanitize |-> sanitize, guard |-> guard,
     listed |-> listed, secs |-> 0]

\* time.sleep(secs)
SleepStep(secs) ==
    [kind |-> "sleep", raw |-> <<>>, sanitize |-> FALSE, guard |-> "none",
     listed |-> FALSE, secs |-> secs]

\* wait_seconds of aos.poe.restart: left out, null, or an integer.
WaitOmitted == [kind |-> "omitted", value |-> 0]
WaitNull == [kind |-> "null", value |-> 0]
WaitInt(n) == [kind |-> "int", value |-> n]

\* ArgsPoeRestart.wait_seconds: Optional[int] with default 5, no range.
parsed_wait_seconds(w) == IF w.kind = "omitted" THEN WaitInt(5) ELSE w

\* parsed.wait_seconds or 5
wait_or_default(w) == IF w.kind = "null" \/ w.value = 0 THEN 5 ELSE w.value

\* str.split('/')[0]
RECURSIVE SplitSlashHead(_)
SplitSlashHead(s) ==
    IF s = <<>> \/ Head(s) = Ord.slash THEN <<>>
    ELSE <<Head(s)>> \o SplitSlashHead(Tail(s))

\* format_template(cfg.templates.ping, ...) with "ping {destination}"
ping_template(destination) == <<Ord.p, SP>> \o destination

\* format_template(cfg.templates.traceroute, ...) with "traceroute {destination}"
traceroute_template(destination) == <<Ord.t, SP>> \o destination

handle_cli_readonly(a) == << CmdStep(a.text, TRUE, "none", FALSE) >>

handle_ping(a) == << CmdStep(ping_template(a.text), TRUE, "none", FALSE) >>

handle_traceroute(a) == << CmdStep(traceroute_template(a.text), TRUE, "none", FALSE) >>

\* "show lanpower slot {slot_num}/1", or "show lanpower slot 1/1" without slot
handle_poe_diag(a) ==
    LET slot_num == IF a.text # <<>> THEN SplitSlashHead(a.text) ELSE <<Ord.one>>
    IN  << CmdStep(ShowArg(Ord.l, Ord.s, slot_num \o <<Ord.slash, Ord.one>>),
                   TRUE, "none", FALSE) >>

\* "lanpower port {port_id} admin-state disable", the pause, "... enable"
handle_poe_restart(a) ==
    << CmdStep(<<Ord.l, SP>> \o a.text \o <<SP, Ord.d>>, TRUE, "none", FALSE),
       SleepStep(wait_or_default(parsed_wait_seconds(a.wait))),
       CmdStep(<<Ord.l, SP>> \o a.text \o <<SP, Ord.e>>, TRUE, "none", FALSE) >>

\* "show system", "show chassis"
handle_device_facts(a) ==
    << CmdStep(Show(Ord.s, Ord.y), TRUE, "none", FALSE),
       CmdStep(Show(Ord.c, Ord.h), TRUE, "none", FALSE) >>

\* "show interfaces port {port_id}"
handle_port_info(a) == << CmdStep(ShowArg(Ord.i, Ord.p, a.text), TRUE, "none", FALSE) >>

\* interfaces, vlan, mac-learning, lldp remote-system, lanpower of one port
handle_port_discover(a) ==
    << CmdStep(ShowArg(Ord.i, Ord.p, a.text), TRUE, "run", TRUE),
       CmdStep(ShowArg(Ord.v, Ord.p, a.text), TRUE, "run", TRUE),
       CmdStep(ShowArg(Ord.m, Ord.p, a.text), TRUE, "run", TRUE),
       CmdStep(ShowArg(Ord.l, Ord.r, a.text), TRUE, "run", TRUE),
       CmdStep(ShowArg(Ord.l, Ord.p, a.text), TRUE, "run", TRUE) >>

\* "show interfaces status"
handle_interfaces_discover(a) == << CmdStep(Show(Ord.i, Ord.s), TRUE, "none", FALSE) >>

\* "show vlan", and "show vlan {vlan_id}" for a non-zero vlan_id (f1)
handle_vlan_audit(a) ==
    << CmdStep(Show(Ord.v, Ord.l), TRUE, "none", TRUE) >>
    \o (IF a.f1 THEN << CmdStep(ShowArg(Ord.v, Ord.l, <<Ord.five>>), TRUE, "none", TRUE) >>
        ELSE <<>>)

\* "show vrf", "show ip routes", "show ip ospf interface", "show ip ospf
\* neighbor"; with a vrf the last three, prefixed "vrf {vrf} "
handle_routing_audit(a) ==
    IF a.text # <<>>
    THEN << CmdStep(<<Ord.v, SP>> \o a.text \o <<SP>> \o Show(Ord.i, Ord.r), TRUE, "run", TRUE),
            CmdStep(<<Ord.v, SP>> \o a.text \o <<SP>> \o Show(Ord.o, Ord.i), TRUE, "run", TRUE),
            CmdStep(<<Ord.v, SP>> \o a.text \o <<SP>> \o Show(Ord.o, Ord.n), TRUE, "run", TRUE) >>
    ELSE << CmdStep(Show(Ord.v, Ord.r), TRUE, "run", TRUE),
            CmdStep(Show(Ord.i, Ord.r), TRUE, "run", TRUE),
            CmdStep(Show(Ord.o, Ord.i), TRUE, "run", TRUE),
            CmdStep(Show(Ord.o, Ord.n), TRUE, "run", TRUE) >>

\* "show spantree mode", "show spantree cist", "show spantree cist ports"
handle_spantree_audit(a) ==
    << CmdStep(Show(Ord.s, Ord.m), TRUE, "run", TRUE),
       CmdStep(Show(Ord.s, Ord.c), TRUE, "run", TRUE),
       CmdStep(Show(Ord.s, Ord.p), TRUE, "run", TRUE) >>

\* by mac_address (f1), by ip_address (f2), by vlan_id alone (f3), or all
handle_mac_lookup(a) ==
    (IF a.f1 THEN << CmdStep(ShowArg(Ord.m, Ord.m, a.text), TRUE, "none", TRUE) >> ELSE <<>>)
    \o (IF a.f2 THEN << CmdStep(ShowArg(Ord.a, Ord.r, a.text), TRUE, "none", TRUE) >> ELSE <<>>)
    \o (IF a.f3 /\ ~a.f1 /\ ~a.f2
        THEN << CmdStep(Show(Ord.m, Ord.d), TRUE, "none", TRUE) >> ELSE <<>>)
    \o (IF ~a.f1 /\ ~a.f2 /\ ~a.f3
        THEN << CmdStep(Show(Ord.m, Ord.d), TRUE, "none", TRUE) >> ELSE <<>>)

\* "show linkagg", then "show lacp" inside try/except
handle_lacp_info(a) ==
    << CmdStep(Show(Ord.l, Ord.a), TRUE, "none", TRUE),
       CmdStep(Show(Ord.l, Ord.c), TRUE, "both", TRUE) >>

\* "show ntp status", then with include_servers (f1) "show ntp client
\* server-list" inside try/except
handle_ntp_status(a) ==
    << CmdStep(Show(Ord.n, Ord.s), TRUE, "none", TRUE) >>
    \o (IF a.f1 THEN << CmdStep(Show(Ord.n, Ord.l), TRUE, "both", TRUE) >> ELSE <<>>)

\* "show ip dhcp-relay interface", then "... counters" inside try/except
handle_dhcp_relay_info(a) ==
    << CmdStep(Show(Ord.d, Ord.i), TRUE, "none", TRUE),
       CmdStep(Show(Ord.d, Ord.c), TRUE, "both", TRUE) >>

\* "show lldp remote-system"
handle_lldp_neighbors(a) == << CmdStep(Show(Ord.l, Ord.r), TRUE, "none", FALSE) >>

\* "write terminal", handed to runner.run as it is
handle_config_backup(a) == << CmdStep(<<Ord.w, SP, Ord.t>>, FALSE, "none", TRUE) >>

\* "show health all" when detailed (f1), else "show health"
handle_health_monitor(a) ==
    << CmdStep(IF a.f1 THEN Show(Ord.h, Ord.a) ELSE Show(Ord.h, Ord.e), TRUE, "none", TRUE) >>

\* "show chassis", then per flag "show temperature" (f1), "show fan" (f2),
\* "show power-supply" (f3), then "show cmm"; each inside try/except
handle_chassis_status(a) ==
    << CmdStep(Show(Ord.c, Ord.h), TRUE, "both", TRUE) >>
    \o (IF a.f1 THEN << CmdStep(Show(Ord.t, Ord.e), TRUE, "both", TRUE) >> ELSE <<>>)
    \o (IF a.f2 THEN << CmdStep(Show(Ord.f, Ord.a), TRUE, "both", TRUE) >> ELSE <<>>)
    \o (IF a.f3 THEN << CmdStep(Show(Ord.p, Ord.s), TRUE, "both", TRUE) >> ELSE <<>>)
    \o << CmdStep(Show(Ord.c, Ord.m), TRUE, "both", TRUE) >>

\* TOOL_HANDLERS[tool](cfg, runner, args, zone_resolver), as its steps
HandlerSteps(t, a) ==
    CASE t = "aos.cli.readonly" -> handle_cli_readonly(a)
      [] t = "aos.diag.ping" -> handle_ping(a)
      [] t = "aos.diag.traceroute" -> handle_traceroute(a)
      [] t = "aos.diag.poe" -> handle_poe_diag(a)
      [] t = "aos.poe.restart" -> handle_poe_restart(a)
      [] t = "aos.device.facts" -> handle_device_facts(a)
      [] t = "aos.port.info" -> handle_port_info(a)
      [] t = "aos.port.discover" -> handle_port_discover(a)
      [] t = "aos.interfaces.discover" -> handle_interfaces_discover(a)
      [] t = "aos.vlan.audit" -> handle_vlan_audit(a)
      [] t = "aos.routing.audit" -> handle_routing_audit(a)
      [] t = "aos.spantree.audit" -> handle_spantree_audit(a)
      [] t = "aos.mac.lookup" -> handle_mac_lookup(a)
      [] t = "aos.lacp.info" -> handle_lacp_info(a)
      [] t = "aos.ntp.status" -> handle_ntp_status(a)
      [] t = "aos.dhcp.relay.info" -> handle_dhcp_relay_info(a)
      [] t = "aos.lldp.neighbors" -> handle_lldp_neighbors(a)
      [] t = "aos.config.backup" -> handle_config_backup(a)
      [] t = "aos.health.monitor" -> handle_health_monitor(a)
      [] t = "aos.chassis.status" -> handle_chassis_status(a)

-----------------------------------------------------------------------------
(* One tool call: tools_call or handle_tools_call -> call_tool -> handler   *)
(* -> response                                                             *)

\* A step of the call leaves the executor's internals and the policy alone.
CallFrame == UNCHANGED <<rvars, command, policy, sanitized, ppc, hvars, ovars, svars, zvars, mvars, avars, ivars, kvars>>

\* cfg.command_policy of three deployments: the defaults (show, ping,
\* traceroute allowed, nothing denied, 512 characters), an operator policy
\* that also allows lanpower, write and vrf-prefixed commands, and a
\* restricted one that allows show but denies the chassis, fan and lacp
\* topics.
DefaultPolicy ==
    [allow |-> << <<Ord.s, SP>>, <<Ord.p, SP>>, <<Ord.t, SP>> >>, deny |-> <<>>,
     max_command_length |-> 512, deny_multiline |-> TRUE, strip_ansi |-> TRUE]

OperatorPolicy ==
    [allow |-> << <<Ord.s, SP>>, <<Ord.p, SP>>, <<Ord.t, SP>>, <<Ord.l, SP>>,
                  <<Ord.w, SP>>, <<Ord.v, SP>> >>,
     deny |-> <<>>,
     max_command_length |-> 512, deny_multiline |-> TRUE, strip_ansi |-> TRUE]

RestrictedPolicy ==
    [allow |-> << <<Ord.s, SP>> >>,
     deny |-> << Show(Ord.c, Ord.h), Show(Ord.f, Ord.a), Show(Ord.l, Ord.c) >>,
     max_command_length |-> 512, deny_multiline |-> TRUE, strip_ansi |-> TRUE]

CallPolicies == {DefaultPolicy, OperatorPolicy, RestrictedPolicy}

\* Argument texts a caller supplies: "1", "1/1", "1 " and "1\nr".
UserTexts == {<<Ord.one>>, <<Ord.one, Ord.slash, Ord.one>>, <<Ord.one, SP>>,
              <<Ord.one, LF, Ord.r>>}

\* Commands a caller of aos.cli.readonly supplies: "show vl", " show vl ",
\* "rm x" and "show vl\nrm x".
CliCommands == {Show(Ord.v, Ord.l), <<SP>> \o Show(Ord.v, Ord.l) \o <<SP>>,
                <<Ord.r, SP, Ord.x>>,
                Show(Ord.v, Ord.l) \o <<LF, Ord.r, SP, Ord.x>>}

WaitValues == {WaitOmitted, WaitNull} \cup {WaitInt(n) : n \in (-1)..MaxWait}

NoArgs == [valid |-> TRUE, text |-> <<>>, f1 |-> FALSE, f2 |-> FALSE, f3 |-> FALSE,
           wait |-> WaitOmitted]

\* The arguments each tool is called with; valid = FALSE stands for args
\* that model_validate refuses (a missing host, a wrong type).
ArgsOf(t) ==
    {[NoArgs EXCEPT !.valid = FALSE]} \cup
    CASE t = "aos.cli.readonly" -> {[NoArgs EXCEPT !.text = x] : x \in CliCommands}
      [] t \in {"aos.diag.ping", "aos.diag.traceroute", "aos.port.info",
                "aos.port.discover"}
            -> {[NoArgs EXCEPT !.text = x] : x \in UserTexts}
      [] t \in {"aos.diag.poe", "aos.routing.audit"}
            -> {[NoArgs EXCEPT !.text = x] : x \in UserTexts \cup {<<>>}}
      [] t = "aos.poe.restart"
            -> {[NoArgs EXCEPT !.text = x, !.wait = w] :
                    x \in {<<Ord.one>>, <<Ord.one, LF, Ord.r>>}, w \in WaitValues}
      [] t \in {"aos.vlan.audit", "aos.ntp.status", "aos.health.monitor"}
            -> {[NoArgs EXCEPT !.f1 = b] : b \in BOOLEAN}
      [] t = "aos.mac.lookup"
            -> {[NoArgs EXCEPT !.text = <<Ord.one>>, !.f1 = b1, !.f2 = b2, !.f3 = b3] :
                    b1 \in BOOLEAN, b2 \in BOOLEAN, b3 \in BOOLEAN}
      [] t = "aos.chassis.status"
            -> {[NoArgs EXCEPT !.f1 = b1, !.f2 = b2, !.f3 = b3] :
                    b1 \in BOOLEAN, b2 \in BOOLEAN, b3 \in BOOLEAN}
      [] OTHER -> {NoArgs}

\* What runner.run can do with a command: return an SSHResult, or raise
\* SSHExecutionError, or let a RuntimeError of _connect through.
RunOutcomes == {"SSHResult", "SSHExecutionError", "RuntimeError"}

RunEvent(i, raw, cmd, outcome) ==
    [op |-> "run", step |-> i, raw |-> raw, cmd |-> cmd, secs |-> 0, outcome |-> outcome]

RejectEvent(i, raw) ==
    [op |-> "reject", step |-> i, raw |-> raw, cmd |-> <<>>, secs |-> 0,
     outcome |-> "ValueError"]

SleepEvent(i, secs) ==
    [op |-> "sleep", step |-> i, raw |-> <<>>, cmd |-> <<>>, secs |-> secs,
     outcome |-> "ok"]

CallLocalsInit ==
    /\ steps = <<>>
    /\ ip = 0
    /\ trace = <<>>
    /\ commands_executed = <<>>
    /\ call_raised = "none"
    /\ response = NoResult

\* The fields of RequestContext; None is "None".  The class has no field
\* named scopes.
RequestContext(subject) ==
    [subject |-> subject, environment |-> "None", correlation_id |-> "None",
     client |-> "None"]

Subjects == {"None", "alice"}

Truthy(v) == v # "None" /\ v # ""

\* The gate of tools_call: "pass", or the exception that leaves it.  A
\* RequestContext instance is truthy; reading an attribute the model does
\* not declare raises AttributeError.
authz_gate(required, ctx) ==
    IF ~required THEN "pass"
    ELSE IF Truthy(ctx.subject) THEN "pass"
    ELSE IF "scopes" \notin DOMAIN ctx THEN "AttributeError"
    ELSE IF Truthy(ctx.scopes) THEN "pass"
    ELSE "HTTPException"

\* ToolCallResponse(...).model_dump() behind an HTTP status; data, content
\* and meta default to None, None and {}.
ToolCallResponse(http, status, code, message, data, content, meta_tool, listed) ==
    [shape |-> "ToolCallResponse", http |-> http, status |-> status, code |-> code,
     message |-> message, data |-> data, content |-> content, meta_tool |-> meta_tool,
     isError |-> (status = "error"), commands_executed |-> listed]

\* raise HTTPException(status_code=400, ...): a body {"detail": ...}.
HTTPException(http) ==
    [shape |-> "HTTPException", http |-> http, status |-> "none", code |-> "none",
     message |-> "detail", data |-> "absent", content |-> "absent",
     meta_tool |-> "absent", isError |-> TRUE, commands_executed |-> <<>>]

\* The result of handle_tools_call: {"content": ..., "isError": ...}.
MCPResult(isError, message, listed) ==
    [shape |-> "MCPResult", http |-> 200, status |-> "none", code |-> "none",
     message |-> message, data |-> "absent", content |-> "blocks",
     meta_tool |-> "absent", isError |-> isError, commands_executed |-> listed]

\* The message of an error response of tools_call: str(e), but the fixed
\* text in the catch-all clause.
ErrorMessage(exc) ==
    IF ErrorCode(exc) = "internal_error" THEN "Internal server error" ELSE "str(e)"

CallIdle ==
    /\ transport = "none"
    /\ require_authz_context = FALSE
    /\ context = RequestContext("None")
    /\ tool = "none"
    /\ args = NoArgs
    /\ cpc = "idle"
    /\ CallLocalsInit

CallInit ==
    /\ transport \in {"unary", "sse"}
    /\ require_authz_context \in BOOLEAN
    /\ context \in {RequestContext(s) : s \in Subjects}
    /\ tool \in TOOL_HANDLERS \cup {"aos.devices.list"}
    /\ args \in ArgsOf(tool)
    /\ policy \in CallPolicies
    /\ command = <<>>
    /\ sanitized = NoResult
    /\ ppc = "idle"
    /\ cpc = "tools_call"
    /\ CallLocalsInit

\* tools_call up to its try block: the gate lets the call through, answers
\* 400, or raises past the function.
ToolsCall ==
    /\ cpc = "tools_call"
    /\ transport = "unary"
    /\ LET gate == authz_gate(require_authz_context, context)
       IN  IF gate = "pass"
           THEN cpc' = "call_tool" /\ UNCHANGED <<call_raised, response>>
           ELSE IF gate = "HTTPException"
           THEN /\ response' = HTTPException(400)
                /\ cpc' = "responded"
                /\ UNCHANGED call_raised
           ELSE /\ call_raised' = gate
                /\ cpc' = "unhandled"
                /\ UNCHANGED response
    /\ CallFrame
    /\ UNCHANGED <<transport, require_authz_context, context, tool, args, steps, ip,
                   trace, commands_executed>>

\* handle_tools_call up to its try block: it builds a RequestContext and
\* has no gate.
HandleToolsCall ==
    /\ cpc = "tools_call"
    /\ transport = "sse"
    /\ cpc' = "call_tool"
    /\ CallFrame
    /\ UNCHANGED <<transport, require_authz_context, context, tool, args, steps, ip,
                   trace, commands_executed, call_raised, response>>

\* unhandled_exception_handler: status 500 and a ToolCallResponse without
\* meta.
UnhandledException ==
    /\ cpc = "unhandled"
    /\ response' = ToolCallResponse(500, "error", "internal_error",
                                    "Internal server error", "null", "null", "absent",
                                    <<>>)
    /\ cpc' = "responded"
    /\ CallFrame
    /\ UNCHANGED <<transport, require_authz_context, context, tool, args, steps, ip,
                   trace, commands_executed, call_raised>>

\* An exception leaves the handler and call_tool.
CallRaise(exc) ==
    /\ call_raised' = exc
    /\ cpc' = "except"

\* call_tool: an unknown name is a KeyError; else the handler starts, with
\* model_validate (a ValidationError is a ValueError) and its command list.
CallTool ==
    /\ cpc = "call_tool"
    /\ IF tool \notin TOOL_HANDLERS
       THEN CallRaise("KeyError") /\ UNCHANGED <<steps, ip>>
       ELSE IF ~args.valid
       THEN CallRaise("ValueError") /\ UNCHANGED <<steps, ip>>
       ELSE /\ steps' = HandlerSteps(tool, args)
            /\ ip' = 1
            /\ cpc' = "handler"
            /\ UNCHANGED call_raised
    /\ CallFrame
    /\ UNCHANGED <<transport, require_authz_context, context, tool, args, trace,
                   commands_executed, response>>

\* safe_cmd = sanitize_command(cmd, compiled_policy), where the handler
\* calls it: the command as it goes to runner.run, or the ValueError.
StepSanitize(st) ==
    IF st.sanitize THEN sanitize_command(st.raw, policy) ELSE Returned(st.raw)

\* The handler's next step.  A command is sanitized and run; an exception
\* is swallowed where a try/except surrounds the statement that raised it
\* and leaves the handler otherwise.  A pause sleeps; time.sleep raises
\* ValueError on a negative length.
HandlerStep ==
    /\ cpc = "handler"
    /\ ip <= Len(steps)
    /\ LET st == steps[ip]
           safe == StepSanitize(st)
       IN
       IF st.kind = "sleep"
       THEN IF st.secs < 0
            THEN /\ CallRaise("ValueError")
                 /\ UNCHANGED <<ip, trace, commands_executed>>
            ELSE /\ trace' = Append(trace, SleepEvent(ip, st.secs))
                 /\ ip' = ip + 1
                 /\ UNCHANGED <<cpc, call_raised, commands_executed>>
       ELSE IF safe.kind # "value"
       THEN /\ trace' = Append(trace, RejectEvent(ip, st.raw))
            /\ UNCHANGED commands_executed
            /\ IF st.guard = "both"
               THEN ip' = ip + 1 /\ UNCHANGED <<cpc, call_raised>>
               ELSE CallRaise("ValueError") /\ UNCHANGED ip
       ELSE \E outcome \in RunOutcomes :
            /\ trace' = Append(trace, RunEvent(ip, st.raw, safe.value, outcome))
            /\ IF outcome = "SSHResult"
               THEN /\ commands_executed' =
                        IF st.listed THEN Append(commands_executed, st.raw)
                        ELSE commands_executed
                    /\ ip' = ip + 1
                    /\ UNCHANGED <<cpc, call_raised>>
               ELSE /\ UNCHANGED commands_executed
                    /\ IF st.guard \in {"run", "both"}
                       THEN ip' = ip + 1 /\ UNCHANGED <<cpc, call_raised>>
                       ELSE CallRaise(outcome) /\ UNCHANGED ip
    /\ CallFrame
    /\ UNCHANGED <<transport, require_authz_context, context, tool, args, steps,
                   response>>

\* The handler returns its dict; tools_call answers status "ok" and
\* handle_tools_call answers isError false.
HandlerReturn ==
    /\ cpc = "handler"
    /\ ip > Len(steps)
    /\ response' = IF transport = "unary"
                   THEN ToolCallResponse(200, "ok", "none", "none", "dict", "blocks",
                                         tool, commands_executed)
                   ELSE MCPResult(FALSE, "none", commands_executed)
    /\ cpc' = "responded"
    /\ CallFrame
    /\ UNCHANGED <<transport, require_authz_context, context, tool, args, steps, ip,
                   trace, commands_executed, call_raised>>

\* The except clauses of tools_call answer status "error" with a code; the
\* one of handle_tools_call answers isError true and the text "Error
\* executing <tool>: <str(e)>".
RespondError ==
    /\ cpc = "except"
    /\ response' = IF transport = "unary"
                   THEN ToolCallResponse(200, "error", ErrorCode(call_raised),
                                         ErrorMessage(call_raised), "null", "null",
                                         tool, <<>>)
                   ELSE MCPResult(TRUE, "Error executing: str(e)", <<>>)
    /\ cpc' = "responded"
    /\ CallFrame
    /\ UNCHANGED <<transport, require_authz_context, context, tool, args, steps, ip,
                   trace, commands_executed, call_raised>>

CallNext ==
    \/ ToolsCall
    \/ HandleToolsCall
    \/ UnhandledException
    \/ CallTool
    \/ HandlerStep
    \/ HandlerReturn
    \/ RespondError

-----------------------------------------------------------------------------
(* The known-hosts file: AutoAddAndSavePolicy.missing_host_key and           *)
(* _update_save_known_hosts_file, run by concurrent calls                        *)

\* Concurrent calls of SSHRunner.run whose connect meets an unknown host key.
MaxThreads == 2

Threads == 1..MaxThreads

HASH == 35
COMMA == 44

\* The hosts the calls connect to: "a" and "b".
Hostnames == {<<Ord.a>>, <<98>>}

\* key.get_name() is "t" for every key; key.get_base64() is what the host
\* offers: "x" for host a, "y" for host b.
key_type == <<Ord.t>>

key_base64(h) == IF h = <<Ord.a>> THEN <<Ord.x>> ELSE <<Ord.y>>

\* new_line = f"{hostname} {key_type} {key_base64}\n"
new_line(h) == h \o <<SP>> \o key_type \o <<SP>> \o key_base64(h) \o <<LF>>

\* f.readlines(): the text cut after every newline; the last line has no
\* newline when the text does not end in one.
RECURSIVE readlines(_)
readlines(text) ==
    IF text = <<>> THEN <<>>
    ELSE IF ~Contains(text, LF) THEN <<text>>
    ELSE LET i == CHOOSE k \in 1..Len(text) :
                    text[k] = LF /\ \A j \in 1..(k - 1) : text[j] # LF
         IN  <<SubSeq(text, 1, i)>> \o readlines(SubSeq(text, i + 1, Len(text)))

\* f.writelines(new_lines): the lines one after the other, nothing between.
RECURSIVE writelines(_)
writelines(ls) == IF ls = <<>> THEN <<>> ELSE Head(ls) \o writelines(Tail(ls))

\* The characters of s before its first whitespace.
RECURSIVE FirstWord(_)
FirstWord(s) ==
    IF s = <<>> \/ IsSpace(Head(s)) THEN <<>> ELSE <<Head(s)>> \o FirstWord(Tail(s))

\* str.split(): the words between runs of whitespace.
RECURSIVE SplitWhitespace(_)
SplitWhitespace(s) ==
    LET t == LStrip(s)
        w == FirstWord(t)
    IN  IF t = <<>> THEN <<>>
        ELSE <<w>> \o SplitWhitespace(SubSeq(t, Len(w) + 1, Len(t)))

\* The characters of s before its first comma.
RECURSIVE FirstField(_)
FirstField(s) ==
    IF s = <<>> \/ Head(s) = COMMA THEN <<>> ELSE <<Head(s)>> \o FirstField(Tail(s))

\* str.split(','): the fields between commas, empty ones included.
RECURSIVE SplitComma(_)
SplitComma(s) ==
    LET w == FirstField(s)
    IN  IF Len(w) = Len(s) THEN <<w>>
        ELSE <<w>> \o SplitComma(SubSeq(s, Len(w) + 2, Len(s)))

\* The line is an entry the loop takes for one of hostname: not blank, not
\* a comment, at least two words, hostname among the comma-separated names
\* of the first.
IsEntryOf(line, h) ==
    LET stripped == Strip(line)
        parts == SplitWhitespace(stripped)
    IN  /\ stripped # <<>>
        /\ stripped[1] # HASH
        /\ Len(parts) >= 2
        /\ \/ \E i \in 1..Len(SplitComma(parts[1])) : SplitComma(parts[1])[i] = h
           \/ parts[1] = h

\* The loop and the append after it: every entry of hostname becomes
\* new_line; with none, new_line is appended.
update_lines(ls, h) ==
    LET replaced == [i \in 1..Len(ls) |->
                        IF IsEntryOf(ls[i], h) THEN new_line(h) ELSE ls[i]]
        found == \E i \in 1..Len(ls) : IsEntryOf(ls[i], h)
    IN  IF found THEN replaced ELSE Append(replaced, new_line(h))

\* open(filepath, 'r') decodes the bytes as UTF-8 and raises on a byte
\* sequence that is not UTF-8.
ReadRaises(text) == Contains(Decode(text), 65533)

\* The lines the call reads: none when the file is absent or the read
\* raises.
read_lines(file) ==
    IF ~file.exists \/ ReadRaises(file.text) THEN <<>> ELSE readlines(file.text)

\* Known-hosts files the calls start from: none, an empty one, comments,
\* entries of a, of b and of both under an older key "z", a line naming
\* both hosts, a file whose last line has no newline, a blank line, a line
\* of one word, and a comment with a byte that is not UTF-8.
Absent == [exists |-> FALSE, text |-> <<>>]

File(text) == [exists |-> TRUE, text |-> text]

OldEntry(h) == h \o <<SP, Ord.t, SP, 122, LF>>

Comment == <<HASH, Ord.c, LF>>

InitialFiles ==
    { Absent,
      File(<<>>),
      File(Comment),
      File(OldEntry(<<Ord.a>>)),
      File(Comment \o OldEntry(<<Ord.a>>) \o OldEntry(<<98>>)),
      File(OldEntry(<<Ord.a>>) \o OldEntry(<<Ord.a>>)),
      File(<<Ord.a, COMMA, 98, SP, Ord.t, SP, 122, LF>>),
      File(<<98, SP, Ord.t, SP, 122>>),
      File(<<HASH, Ord.c>>),
      File(<<LF, Ord.a, LF>> \o OldEntry(<<98>>)),
      File(<<HASH, 233, LF>> \o OldEntry(<<98>>)) }

HostsFrame == UNCHANGED <<pvars, rvars, cvars, ovars, svars, zvars, mvars, avars, ivars, kvars>>

HostsIdle ==
    /\ save_known_hosts_file = "None"
    /\ known_hosts = Absent
    /\ known_hosts0 = Absent
    /\ known_hosts_lock = 0
    /\ hpc = <<>>
    /\ hostname = <<>>
    /\ host_keys = <<>>
    /\ lines = <<>>
    /\ wrote = <<>>
    /\ order = <<>>

HostsInit ==
    /\ save_known_hosts_file \in {"None", "path"}
    /\ known_hosts \in InitialFiles
    /\ known_hosts0 = known_hosts
    /\ known_hosts_lock = 0
    /\ hpc = [t \in Threads |-> "missing_host_key"]
    /\ hostname \in [Threads -> Hostnames]
    /\ host_keys = [t \in Threads |-> {}]
    /\ lines = [t \in Threads |-> <<>>]
    /\ wrote = [t \in Threads |-> FALSE]
    /\ order = <<>>

\* missing_host_key: the key goes into the client's own host keys; without
\* a save_known_hosts_file that is all.
MissingHostKey(t) ==
    /\ hpc[t] = "missing_host_key"
    /\ host_keys' = [host_keys EXCEPT ![t] = @ \cup {<<hostname[t], key_base64(hostname[t])>>}]
    /\ hpc' = [hpc EXCEPT ![t] = IF save_known_hosts_file = "None" THEN "done" ELSE "lock"]
    /\ UNCHANGED <<save_known_hosts_file, known_hosts, known_hosts0, known_hosts_lock,
                   hostname, lines, wrote, order>>
    /\ HostsFrame

\* The update without the with block: the call goes on whoever holds the
\* lock.
Acquire_without_lock(t) ==
    /\ hpc[t] = "lock"
    /\ known_hosts_lock' = t
    /\ order' = Append(order, t)
    /\ hpc' = [hpc EXCEPT ![t] = "read"]
    /\ UNCHANGED <<save_known_hosts_file, known_hosts, known_hosts0, hostname,
                   host_keys, lines, wrote>>
    /\ HostsFrame

\* with _known_hosts_lock: the call waits until the lock is free.
Acquire(t) ==
    /\ hpc[t] = "lock"
    /\ known_hosts_lock = 0
    /\ known_hosts_lock' = t
    /\ order' = Append(order, t)
    /\ hpc' = [hpc EXCEPT ![t] = "read"]
    /\ UNCHANGED <<save_known_hosts_file, known_hosts, known_hosts0, hostname, host_keys,
                   lines, wrote>>
    /\ HostsFrame

\* lines = f.readlines(), or [] for no file and for a read that raises.
Read(t) ==
    /\ hpc[t] = "read"
    /\ lines' = [lines EXCEPT ![t] = read_lines(known_hosts)]
    /\ hpc' = [hpc EXCEPT ![t] = "write"]
    /\ UNCHANGED <<save_known_hosts_file, known_hosts, known_hosts0, known_hosts_lock,
                   hostname, host_keys, wrote, order>>
    /\ HostsFrame

\* The loop, then open(filepath, 'w') and writelines: the file becomes the
\* new lines, or open raises and the file stays as it is.
Write(t) ==
    /\ hpc[t] = "write"
    /\ \E ok \in BOOLEAN :
        /\ wrote' = [wrote EXCEPT ![t] = ok]
        /\ known_hosts' = IF ok THEN File(writelines(update_lines(lines[t], hostname[t])))
                          ELSE known_hosts
    /\ hpc' = [hpc EXCEPT ![t] = "unlock"]
    /\ UNCHANGED <<save_known_hosts_file, known_hosts0, known_hosts_lock, hostname,
                   host_keys, lines, order>>
    /\ HostsFrame

\* The with block ends.
Release(t) ==
    /\ hpc[t] = "unlock"
    /\ known_hosts_lock' = 0
    /\ hpc' = [hpc EXCEPT ![t] = "done"]
    /\ UNCHANGED <<save_known_hosts_file, known_hosts, known_hosts0, hostname, host_keys,
                   lines, wrote, order>>
    /\ HostsFrame

HostsNext ==
    \/ \E t \in Threads : MissingHostKey(t)
    \/ \E t \in Threads : Acquire(t)
    \/ \E t \in Threads : Read(t)
    \/ \E t \in Threads : Write(t)
    \/ \E t \in Threads : Release(t)

-----------------------------------------------------------------------------
(* What the handlers of aos.cli.readonly, aos.diag.ping and                  *)
(* aos.diag.traceroute return of the device's output                       *)

\* Longest stdout of the device drawn from all texts over OutChars.
MaxText == 3

ESC == 27
LBRACKET == 91
STAR == 42

\* _ANSI_RE at the head of s: ESC [ then bytes of [0-?], then bytes of
\* [ -/], then one byte of [@-~]; the length of the match, 0 for none.
RECURSIVE RunOf(_, _)
RunOf(s, class) ==
    IF s # <<>> /\ Head(s) \in class THEN 1 + RunOf(Tail(s), class) ELSE 0

AnsiAt(s) ==
    IF Len(s) >= 3 /\ s[1] = ESC /\ s[2] = LBRACKET
    THEN LET rest == SubSeq(s, 3, Len(s))
             params == RunOf(rest, 48..63)
             inter == RunOf(SubSeq(rest, params + 1, Len(rest)), 32..47)
             n == params + inter
         IN  IF n < Len(rest) /\ rest[n + 1] \in 64..126 THEN n + 3 ELSE 0
    ELSE 0

\* _ANSI_RE.sub("", text)
RECURSIVE strip_ansi(_)
strip_ansi(text) ==
    IF text = <<>> THEN <<>>
    ELSE IF AnsiAt(text) > 0
    THEN strip_ansi(SubSeq(text, AnsiAt(text) + 1, Len(text)))
    ELSE <<Head(text)>> \o strip_ansi(Tail(text))

\* The default redactions, keywords abbreviated to their first letter:
\* (?i)(p\s+)(\S+) and (?i)(c\s+)(\S+), each replaced by \1***.
RedactionRule(keyword) == [pattern |-> keyword, replacement |-> <<STAR, STAR, STAR>>]

DefaultRedactions == << RedactionRule(Ord.p), RedactionRule(Ord.c) >>

Lower(ch) == IF ch \in 65..90 THEN ch + 32 ELSE ch

Spaces == {9, 10, 11, 12, 13, 28, 29, 30, 31, 32}

NonSpaces == (0..255) \ Spaces

\* (?i)(k\s+)(\S+) at the head of s: [space, word], the lengths of \s+ and
\* of \S+; space = 0 for no match.
RuleAt(keyword, s) ==
    IF s # <<>> /\ Lower(Head(s)) = keyword
    THEN LET w == RunOf(Tail(s), Spaces)
             n == RunOf(SubSeq(s, w + 2, Len(s)), NonSpaces)
         IN  IF w >= 1 /\ n >= 1 THEN [space |-> w, word |-> n]
             ELSE [space |-> 0, word |-> 0]
    ELSE [space |-> 0, word |-> 0]

\* re.sub with count=1: the first match alone is replaced.
RECURSIVE re_sub_first(_, _)
re_sub_first(rule, s) ==
    IF s = <<>> THEN <<>>
    ELSE LET at == RuleAt(rule.pattern, s)
         IN  IF at.space > 0
             THEN SubSeq(s, 1, 1 + at.space) \o rule.replacement
                  \o SubSeq(s, 2 + at.space + at.word, Len(s))
             ELSE <<Head(s)>> \o re_sub_first(rule, Tail(s))

\* re.sub(pattern, repl, out): every match from the left, none overlapping,
\* becomes group 1 followed by "***".
RECURSIVE re_sub(_, _)
re_sub(rule, s) ==
    IF s = <<>> THEN <<>>
    ELSE LET at == RuleAt(rule.pattern, s)
         IN  IF at.space > 0
             THEN SubSeq(s, 1, 1 + at.space) \o rule.replacement
                  \o re_sub(rule, SubSeq(s, 2 + at.space + at.word, Len(s)))
             ELSE <<Head(s)>> \o re_sub(rule, Tail(s))

\* apply_redactions: the rules in order, each across the full text.
RECURSIVE apply_redactions(_, _)
apply_redactions(text, redactions) ==
    IF redactions = <<>> THEN text
    ELSE apply_redactions(re_sub(Head(redactions), text), Tail(redactions))

\* The characters of the device's output: ESC, "[", space, "p", "P", "c"
\* and "x".
OutChars == {ESC, LBRACKET, SP, Ord.p, 80, Ord.c, Ord.x}

\* Longer outputs, where the rules meet: "p x p x", "c p x", "p c x",
\* "c xp x", "P  x", "p " followed by a colour sequence and "x", and a
\* colour sequence between an ESC and "[x".
LongTexts ==
    { <<Ord.p, SP, Ord.x, SP, Ord.p, SP, Ord.x>>,
      <<Ord.c, SP, Ord.p, SP, Ord.x>>,
      <<Ord.p, SP, Ord.c, SP, Ord.x>>,
      <<Ord.c, SP, Ord.x, Ord.p, SP, Ord.x>>,
      <<80, SP, SP, Ord.x>>,
      <<Ord.p, SP, ESC, LBRACKET, Ord.x, Ord.x>>,
      <<ESC, ESC, LBRACKET, Ord.x, LBRACKET, Ord.x>> }

OutputTexts == UNION {[1..k -> OutChars] : k \in 0..MaxText} \cup LongTexts

\* What the device writes to stderr: nothing, "p x", or a colour sequence
\* and "c x".
StderrTexts == {<<>>, <<Ord.p, SP, Ord.x>>, <<ESC, LBRACKET, Ord.x, Ord.c, SP, Ord.x>>}

OutputFrame == UNCHANGED <<pvars, rvars, cvars, hvars, svars, zvars, mvars, avars, ivars, kvars>>

OutputIdle ==
    /\ out_tool = "none"
    /\ command_policy = [strip_ansi |-> TRUE, redactions |-> <<>>]
    /\ res = [stdout |-> <<>>, stderr |-> <<>>]
    /\ returned = NoResult
    /\ opc = "idle"

OutputInit ==
    /\ out_tool \in {"aos.cli.readonly", "aos.diag.ping", "aos.diag.traceroute"}
    /\ command_policy \in [strip_ansi : BOOLEAN, redactions : {<<>>, DefaultRedactions}]
    /\ res \in [stdout : OutputTexts, stderr : StderrTexts]
    /\ returned = NoResult
    /\ opc = "ran"

\* handle_cli_readonly with redacted computed from stdout alone.
CliReadonlyReturn_stdout_only ==
    /\ opc = "ran"
    /\ out_tool = "aos.cli.readonly"
    /\ LET stdout == IF command_policy.strip_ansi THEN strip_ansi(res.stdout)
                     ELSE res.stdout
           stderr == IF command_policy.strip_ansi THEN strip_ansi(res.stderr)
                     ELSE res.stderr
           stdout2 == apply_redactions(stdout, command_policy.redactions)
           stderr2 == apply_redactions(stderr, command_policy.redactions)
       IN  returned' =
             IF command_policy.redactions # <<>>
             THEN [stdout |-> stdout2, stderr |-> stderr2, redacted |-> (stdout2 # stdout)]
             ELSE [stdout |-> stdout, stderr |-> stderr, redacted |-> FALSE]
    /\ opc' = "returned"
    /\ UNCHANGED <<out_tool, command_policy, res>>
    /\ OutputFrame

\* handle_cli_readonly after runner.run: strip_ansi on both streams when
\* configured, then the redactions on both when there are any.
CliReadonlyReturn ==
    /\ opc = "ran"
    /\ out_tool = "aos.cli.readonly"
    /\ LET stdout == IF command_policy.strip_ansi THEN strip_ansi(res.stdout)
                     ELSE res.stdout
           stderr == IF command_policy.strip_ansi THEN strip_ansi(res.stderr)
                     ELSE res.stderr
           stdout2 == apply_redactions(stdout, command_policy.redactions)
           stderr2 == apply_redactions(stderr, command_policy.redactions)
       IN  returned' =
             IF command_policy.redactions # <<>>
             THEN [stdout |-> stdout2, stderr |-> stderr2,
                   redacted |-> (stdout2 # stdout \/ stderr2 # stderr)]
             ELSE [stdout |-> stdout, stderr |-> stderr, redacted |-> FALSE]
    /\ opc' = "returned"
    /\ UNCHANGED <<out_tool, command_policy, res>>
    /\ OutputFrame

\* handle_ping after runner.run: strip_ansi on stdout when configured;
\* stderr is res.stderr.
PingReturn ==
    /\ opc = "ran"
    /\ out_tool = "aos.diag.ping"
    /\ returned' = [stdout |-> IF command_policy.strip_ansi THEN strip_ansi(res.stdout)
                               ELSE res.stdout,
                    stderr |-> res.stderr, redacted |-> FALSE]
    /\ opc' = "returned"
    /\ UNCHANGED <<out_tool, command_policy, res>>
    /\ OutputFrame

\* handle_traceroute after runner.run: the same as handle_ping.
TracerouteReturn ==
    /\ opc = "ran"
    /\ out_tool = "aos.diag.traceroute"
    /\ returned' = [stdout |-> IF command_policy.strip_ansi THEN strip_ansi(res.stdout)
                               ELSE res.stdout,
                    stderr |-> res.stderr, redacted |-> FALSE]
    /\ opc' = "returned"
    /\ UNCHANGED <<out_tool, command_policy, res>>
    /\ OutputFrame

OutputNext ==
    \/ CliReadonlyReturn
    \/ PingReturn
    \/ TracerouteReturn

-----------------------------------------------------------------------------
(* One POST /mcp/sse: mcp_sse_endpoint and MCPSSEHandler.stream_response    *)

SseFrame == UNCHANGED <<pvars, rvars, cvars, hvars, ovars, zvars, mvars, avars, ivars, kvars>>

\* The methods a request names; "None" for a body without "method".
Methods == {"initialize", "tools/list", "tools/call", "resources/list", "None"}

\* The ids a request carries; "None" for a body without "id".
RequestIds == {"None", "1", "abc"}

\* The bodies: a JSON object, a JSON array, and text that is not JSON.
Bodies == {"object", "array", "malformed"}

NoFrame == [kind |-> "none"]

\* yield f"data: {json.dumps(response)}\n\n" for a response with a result.
ResultFrame(id, value) ==
    [kind |-> "data", jsonrpc |-> "2.0", id |-> id, keys |-> {"jsonrpc", "id", "result"},
     result |-> value, error |-> 0]

\* The same for a response with an error.
ErrorFrame(id, code) ==
    [kind |-> "data", jsonrpc |-> "2.0", id |-> id, keys |-> {"jsonrpc", "id", "error"},
     result |-> "none", error |-> code]

\* The result of the branch of stream_response the method selects, or
\* "raised" where the handler can raise: tool_infos in tools/list, and
\* params.get in tools/call when "params" is null.
DispatchOutcomes(req) ==
    CASE req.method = "initialize" -> {"serverInfo"}
      [] req.method = "tools/list" -> {"tools", "raised"}
      [] req.method = "tools/call" ->
            IF req.params = "null" THEN {"raised"} ELSE {"content", "content_isError"}
      [] OTHER -> {"error_method_not_found"}

SseIdle ==
    /\ sse_request = [client_ip |-> "none", authorization |-> "none", body |-> "none",
                      method |-> "None", id |-> "None", params |-> "object"]
    /\ sse_config = [allowed_ips |-> FALSE, api_key |-> FALSE]
    /\ spc = "idle"
    /\ sse_result = "none"
    /\ sse_status = 0
    /\ frames = <<>>

SseInit ==
    /\ sse_request \in [client_ip : {"allowed", "other"},
                        authorization : {"valid", "invalid"},
                        body : Bodies, method : Methods, id : RequestIds,
                        params : {"object", "null"}]
    /\ sse_config \in [allowed_ips : BOOLEAN, api_key : BOOLEAN]
    /\ spc = "endpoint"
    /\ sse_result = "none"
    /\ sse_status = 0
    /\ frames = <<>>

\* mcp_sse_endpoint: the IP allow-list, the bearer token, then the body:
\* a body that is not JSON gets the error stream, any other the stream of
\* stream_response.
SseEndpoint ==
    /\ spc = "endpoint"
    /\ IF sse_config.allowed_ips /\ sse_request.client_ip # "allowed"
       THEN sse_status' = 403 /\ spc' = "refused"
       ELSE IF sse_config.api_key /\ sse_request.authorization # "valid"
       THEN sse_status' = 401 /\ spc' = "refused"
       ELSE IF sse_request.body = "malformed"
       THEN sse_status' = 200 /\ spc' = "error_stream"
       ELSE sse_status' = 200 /\ spc' = "stream"
    /\ UNCHANGED <<sse_request, sse_config, sse_result, frames>>
    /\ SseFrame

\* error_stream: one frame, code -32700 and id null, and the generator
\* ends.
ErrorStream ==
    /\ spc = "error_stream"
    /\ frames' = Append(frames, ErrorFrame("None", -32700))
    /\ spc' = "closed"
    /\ UNCHANGED <<sse_request, sse_config, sse_result, sse_status>>
    /\ SseFrame

\* stream_response up to the yield: request_data.get ahead of the try
\* raises on a body that is not an object and the stream breaks; inside
\* the try the method's branch gives a result or raises.
StreamDispatch ==
    /\ spc = "stream"
    /\ IF sse_request.body # "object"
       THEN spc' = "broken" /\ sse_result' = "AttributeError"
       ELSE /\ sse_result' \in DispatchOutcomes(sse_request)
            /\ spc' = "dispatched"
    /\ UNCHANGED <<sse_request, sse_config, sse_status, frames>>
    /\ SseFrame

\* stream_response whose except clause yields nothing.
StreamYield_without_except ==
    /\ spc = "dispatched"
    /\ frames' = IF sse_result = "raised" THEN frames
                 ELSE Append(frames, ResultFrame(sse_request.id, sse_result))
    /\ spc' = "yielded"
    /\ UNCHANGED <<sse_request, sse_config, sse_result, sse_status>>
    /\ SseFrame

\* The yield of the try block, or the one of its except clause.
StreamYield ==
    /\ spc = "dispatched"
    /\ frames' = Append(frames,
                        IF sse_result = "raised" THEN ErrorFrame(sse_request.id, -32603)
                        ELSE ResultFrame(sse_request.id, sse_result))
    /\ spc' = "yielded"
    /\ UNCHANGED <<sse_request, sse_config, sse_result, sse_status>>
    /\ SseFrame

\* The generator ends and the response is complete.
StreamClose ==
    /\ spc = "yielded"
    /\ spc' = "closed"
    /\ UNCHANGED <<sse_request, sse_config, sse_result, sse_status, frames>>
    /\ SseFrame

SseNext ==
    \/ SseEndpoint
    \/ ErrorStream
    \/ StreamDispatch
    \/ StreamYield
    \/ StreamClose

-----------------------------------------------------------------------------
(* Zone credentials: extract_zone_from_ip and                               *)
(* ZoneAuthResolver.get_credentials_for_host                                *)

ZoneFrame == UNCHANGED <<pvars, rvars, cvars, hvars, ovars, svars, mvars, avars, ivars, kvars>>

DOT == 46

None == [kind |-> "None"]

\* \d of a str pattern: the ASCII digits and the other decimal digits of
\* Unicode, here the Arabic-Indic ones.
Digits == (48..57) \cup (1632..1641)

\* int() of one digit.
DigitValue(ch) == IF ch <= 57 THEN ch - 48 ELSE ch - 1632

\* int(x) of a run of digits.
RECURSIVE int(_)
int(x) == IF x = <<>> THEN 0 ELSE 10 * int(SubSeq(x, 1, Len(x) - 1)) + DigitValue(x[Len(x)])

\* (\d+) at the head of s, followed by a dot when dot is true: the group
\* and what is left of s; the group is empty for no match.
Group(s, dot) ==
    LET n == RunOf(s, Digits)
    IN  IF n = 0 \/ (dot /\ (Len(s) = n \/ s[n + 1] # DOT))
        THEN [group |-> <<>>, rest |-> s]
        ELSE [group |-> SubSeq(s, 1, n),
              rest |-> SubSeq(s, n + (IF dot THEN 2 ELSE 1), Len(s))]

\* re.match(r'^(\d+)\.(\d+)\.(\d+)\.(\d+)$', host).groups(), <<>> for no
\* match; $ matches at the end and before a newline that ends the text.
QuadGroups(host) ==
    LET g1 == Group(host, TRUE)
        g2 == Group(g1.rest, TRUE)
        g3 == Group(g2.rest, TRUE)
        g4 == Group(g3.rest, FALSE)
    IN  IF /\ g1.group # <<>> /\ g2.group # <<>> /\ g3.group # <<>> /\ g4.group # <<>>
           /\ g4.rest \in {<<>>, <<LF>>}
        THEN <<g1.group, g2.group, g3.group, g4.group>>
        ELSE <<>>

extract_zone_from_ip(host) ==
    LET groups == QuadGroups(host)
        octets == [i \in 1..Len(groups) |-> int(groups[i])]
    IN  IF groups = <<>> THEN None
        ELSE IF \E i \in 1..4 : octets[i] < 0 \/ octets[i] > 255 THEN None
        ELSE Returned(octets[2])

\* The value of a config key or of an environment variable; "None" for a
\* key that is not there, "" for an empty value.
Falsy(v) == v \in {"None", ""}

\* _resolve_credentials for one of username and password: the variable
\* named by the _env key if it is set and not empty, else the direct
\* value, else None.
resolve_value(env_name, direct, env) ==
    LET from_env == IF ~Falsy(env_name) /\ env_name \in DOMAIN env THEN env[env_name]
                    ELSE "None"
    IN  IF ~Falsy(from_env) THEN from_env
        ELSE IF ~Falsy(direct) THEN direct
        ELSE from_env

resolve_credentials(config, env) ==
    [username |-> resolve_value(config.username_env, config.username, env),
     password |-> resolve_value(config.password_env, config.password, env)]

ZoneCredentials(creds, zone) ==
    [username |-> creds.username, password |-> creds.password, zone_id |-> zone]

\* A ZoneCredentialsConfig after model_dump; NoConfig is a key that is
\* not there.
NoConfig == [username_env |-> "None", username |-> "None", password_env |-> "None",
             password |-> "None", present |-> FALSE]

Config(ue, u, pe, pw) ==
    [username_env |-> ue, username |-> u, password_env |-> pe, password |-> pw,
     present |-> TRUE]

\* Octets as texts: "0", "9", "255", "256" and the Arabic-Indic nine.
OctetTexts == {<<48>>, <<57>>, <<50, 53, 53>>, <<50, 53, 54>>, <<1641>>}

Quad(a, b, c, d) == a \o <<DOT>> \o b \o <<DOT>> \o c \o <<DOT>> \o d

\* Hosts: dotted quads of these octets, bare or followed by a newline, a
\* letter or a fifth octet; three octets; a name; the empty text.
HostTexts ==
    {Quad(a, b, c, d) \o suffix :
        a \in {<<57>>}, b \in OctetTexts, c \in OctetTexts, d \in OctetTexts,
        suffix \in {<<>>, <<LF>>, <<Ord.x>>, <<DOT, 57>>, <<LF, LF>>}}
    \cup {Quad(a, <<57>>, <<57>>, <<57>>) : a \in OctetTexts}
    \cup {<<57, DOT, 57, DOT, 57>>, <<Ord.s, Ord.w>>, <<>>, <<57, DOT, DOT, 57, DOT, 57>>}

\* The global entry: none, both from the environment, both direct, the
\* username from the environment and the password direct, a username
\* alone.
GlobalConfigs ==
    {NoConfig, Config("GU", "None", "GP", "None"), Config("None", "admin", "None", "pw"),
     Config("GU", "None", "None", "pw"), Config("GU", "None", "None", "None")}

\* The entry of zone 9: none, both from the environment, with a direct
\* fallback for the username.
ZoneConfigs ==
    {NoConfig, Config("ZU", "None", "ZP", "None"), Config("ZU", "zadmin", "ZP", "None")}

\* os.environ: GU, GP, ZU and ZP set to a value, set to "", or not set.
Environs ==
    {[n \in names |-> IF n \in empty THEN "" ELSE "v"] :
        names \in SUBSET {"GU", "GP", "ZU", "ZP"}, empty \in {{}, {"GP"}, {"ZU"}}}

ZoneIdle ==
    /\ zhost = <<>>
    /\ zone_config = [global |-> NoConfig, zones |-> [z \in {9} |-> NoConfig]]
    /\ zenviron = [n \in {} |-> ""]
    /\ zone_id = None
    /\ credentials_list = <<>>
    /\ zpc = "idle"

\* The hosts are drawn under one configuration, and the configurations
\* and environments under four hosts.
ZoneInit ==
    /\ \/ /\ zhost \in HostTexts
          /\ zone_config = [global |-> Config("GU", "None", "GP", "None"),
                            zones |-> [z \in {9} |-> Config("ZU", "None", "ZP", "None")]]
          /\ zenviron = [n \in {"GU", "GP", "ZU", "ZP"} |-> "v"]
       \/ /\ zhost \in {Quad(<<57>>, <<57>>, <<57>>, <<57>>),
                        Quad(<<57>>, <<48>>, <<57>>, <<57>>),
                        Quad(<<57>>, <<50, 53, 54>>, <<57>>, <<57>>), <<Ord.s, Ord.w>>}
          /\ zone_config \in [global : GlobalConfigs, zones : [{9} -> ZoneConfigs]]
          /\ zenviron \in Environs
    /\ zone_id = None
    /\ credentials_list = <<>>
    /\ zpc = "global"

\* if not self.zone_config: return []
NoZoneConfig == ~zone_config.global.present /\ \A z \in DOMAIN zone_config.zones :
                                                    ~zone_config.zones[z].present

\* get_credentials_for_host, the global entry: appended when its username
\* and password both resolve.
GlobalCredentials ==
    /\ zpc = "global"
    /\ IF NoZoneConfig
       THEN zpc' = "returned" /\ UNCHANGED credentials_list
       ELSE /\ zpc' = "zone"
            /\ LET global_creds == resolve_credentials(zone_config.global, zenviron)
               IN  credentials_list' =
                     IF /\ zone_config.global.present
                        /\ ~Falsy(global_creds.username) /\ ~Falsy(global_creds.password)
                     THEN Append(credentials_list, ZoneCredentials(global_creds, None))
                     ELSE credentials_list
    /\ UNCHANGED <<zhost, zone_config, zenviron, zone_id>>
    /\ ZoneFrame

\* The zone entry put in front of the list instead of at its end.
ZoneSpecificCredentials_first ==
    /\ zpc = "zone"
    /\ zone_id' = extract_zone_from_ip(zhost)
    /\ LET zone_cfg == IF zone_id'.kind = "value" /\ zone_id'.value \in DOMAIN zone_config.zones
                       THEN zone_config.zones[zone_id'.value] ELSE NoConfig
           resolved == resolve_credentials(zone_cfg, zenviron)
       IN  credentials_list' =
             IF /\ zone_cfg.present
                /\ ~Falsy(resolved.username) /\ ~Falsy(resolved.password)
             THEN <<ZoneCredentials(resolved, zone_id')>> \o credentials_list
             ELSE credentials_list
    /\ zpc' = "returned"
    /\ UNCHANGED <<zhost, zone_config, zenviron>>
    /\ ZoneFrame

\* get_credentials_for_host, the zone entry: the zone of the host, and its
\* entry appended when there is one and it resolves; then the return.
ZoneSpecificCredentials ==
    /\ zpc = "zone"
    /\ zone_id' = extract_zone_from_ip(zhost)
    /\ LET zone_cfg == IF zone_id'.kind = "value" /\ zone_id'.value \in DOMAIN zone_config.zones
                       THEN zone_config.zones[zone_id'.value] ELSE NoConfig
           resolved == resolve_credentials(zone_cfg, zenviron)
       IN  credentials_list' =
             IF /\ zone_cfg.present
                /\ ~Falsy(resolved.username) /\ ~Falsy(resolved.password)
             THEN Append(credentials_list, ZoneCredentials(resolved, zone_id'))
             ELSE credentials_list
    /\ zpc' = "returned"
    /\ UNCHANGED <<zhost, zone_config, zenviron>>
    /\ ZoneFrame

ZoneNext ==
    \/ GlobalCredentials
    \/ ZoneSpecificCredentials

-----------------------------------------------------------------------------
(* show health: parse_show_health and handle_health_monitor                 *)

HealthFrame == UNCHANGED <<pvars, rvars, cvars, hvars, ovars, svars, zvars, avars, ivars, kvars>>

Statuses == {"OK", "WARNING", "CRITICAL", "DOWN"}

\* A line of the chassis table that the row pattern matches.
ModuleRow(status, cpu, memory) ==
    [kind |-> "module", status |-> status, cpu |-> cpu, memory |-> memory]

\* A line "CPU <n> ..." or "Memory <n> ..." of the CMM resources table.
ResourceRow(kind, current) ==
    [kind |-> kind, status |-> "none", cpu |-> current, memory |-> current]

\* A line that no pattern matches: a header, a rule, a blank.
OtherLine == [kind |-> "other", status |-> "none", cpu |-> 0, memory |-> 0]

HealthLines ==
    {ModuleRow(s, 10, 10) : s \in Statuses}
    \cup {ModuleRow("OK", 90, 10), ModuleRow("OK", 10, 90)}
    \cup {ResourceRow("CPU", 38), ResourceRow("CPU", 90), ResourceRow("Memory", 90)}
    \cup {OtherLine}

MaxLines == 3

Module(name, status, cpu, memory) ==
    [module_name |-> name, status |-> status, cpu_usage_percent |-> cpu,
     memory_usage_percent |-> memory]

HealthIdle ==
    /\ health_output = [resources |-> FALSE, lines |-> <<>>]
    /\ health_line = 0
    /\ cpu_usage = 0
    /\ memory_usage = 0
    /\ health_data = [modules |-> <<>>, overall_status |-> "OK", issues |-> <<>>]
    /\ overall_status = "UNKNOWN"
    /\ mpc = "idle"

\* result = {"modules": [], "overall_status": "OK", "issues": []} and the
\* choice of the branch: "Resources" and "Current" both in the output.
HealthInit ==
    /\ health_output \in [resources : BOOLEAN,
                          lines : UNION {[1..n -> HealthLines] : n \in 0..MaxLines}]
    /\ health_line = 1
    /\ cpu_usage = 0
    /\ memory_usage = 0
    /\ health_data = [modules |-> <<>>, overall_status |-> "OK", issues |-> <<>>]
    /\ overall_status = "UNKNOWN"
    /\ mpc = "lines"

\* One turn of the CMM loop: a CPU or a Memory line sets its local.
CmmLine ==
    /\ mpc = "lines"
    /\ health_output.resources
    /\ health_line <= Len(health_output.lines)
    /\ LET line == health_output.lines[health_line]
       IN  /\ cpu_usage' = IF line.kind = "CPU" THEN line.cpu ELSE cpu_usage
           /\ memory_usage' = IF line.kind = "Memory" THEN line.memory ELSE memory_usage
    /\ health_line' = health_line + 1
    /\ UNCHANGED <<health_output, health_data, overall_status, mpc>>
    /\ HealthFrame

\* After the CMM loop: one CMM module if a usage was read, WARNING above
\* the thresholds.
CmmModule ==
    /\ mpc = "lines"
    /\ health_output.resources
    /\ health_line > Len(health_output.lines)
    /\ health_data' =
         IF cpu_usage > 0 \/ memory_usage > 0
         THEN [modules |-> Append(health_data.modules,
                                  Module("CMM", "OK", cpu_usage, memory_usage)),
               overall_status |-> IF cpu_usage > 80 \/ memory_usage > 85 THEN "WARNING"
                                  ELSE health_data.overall_status,
               issues |-> health_data.issues
                          \o (IF cpu_usage > 80 THEN <<"cpu">> ELSE <<>>)
                          \o (IF memory_usage > 85 THEN <<"memory">> ELSE <<>>)]
         ELSE health_data
    /\ mpc' = "parsed"
    /\ UNCHANGED <<health_output, health_line, cpu_usage, memory_usage, overall_status>>
    /\ HealthFrame

\* One turn of the chassis loop: a matching row is appended to modules; a
\* status other than OK is assigned to overall_status and noted; usages
\* above the thresholds are noted.
ChassisLine ==
    /\ mpc = "lines"
    /\ ~health_output.resources
    /\ health_line <= Len(health_output.lines)
    /\ LET line == health_output.lines[health_line]
       IN  health_data' =
             IF line.kind = "module"
             THEN [modules |-> Append(health_data.modules,
                                      Module("module", line.status, line.cpu, line.memory)),
                   overall_status |-> IF line.status \in {"WARNING", "CRITICAL", "DOWN"}
                                      THEN line.status
                                      ELSE health_data.overall_status,
                   issues |-> health_data.issues
                              \o (IF line.status \in {"WARNING", "CRITICAL", "DOWN"}
                                  THEN <<"status">> ELSE <<>>)
                              \o (IF line.cpu > 80 THEN <<"cpu">> ELSE <<>>)
                              \o (IF line.memory > 85 THEN <<"memory">> ELSE <<>>)]
             ELSE health_data
    /\ health_line' = health_line + 1
    /\ UNCHANGED <<health_output, cpu_usage, memory_usage, overall_status, mpc>>
    /\ HealthFrame

\* The end of the chassis loop: return result.
ChassisDone ==
    /\ mpc = "lines"
    /\ ~health_output.resources
    /\ health_line > Len(health_output.lines)
    /\ mpc' = "parsed"
    /\ UNCHANGED <<health_output, health_line, cpu_usage, memory_usage, health_data,
                   overall_status>>
    /\ HealthFrame

\* handle_health_monitor: overall_status = health_data.get("overall_status").
HealthMonitorReturn ==
    /\ mpc = "parsed"
    /\ overall_status' = health_data.overall_status
    /\ mpc' = "returned"
    /\ UNCHANGED <<health_output, health_line, cpu_usage, memory_usage, health_data>>
    /\ HealthFrame

HealthNext ==
    \/ CmmLine
    \/ CmmModule
    \/ ChassisLine
    \/ ChassisDone
    \/ HealthMonitorReturn

-----------------------------------------------------------------------------
(* Routing audit: parse_show_ip_ospf_neighbor and the issues of             *)
(* handle_routing_audit                                                     *)

OspfFrame == UNCHANGED <<pvars, rvars, cvars, hvars, ovars, svars, zvars, mvars, ivars, kvars>>

HYPHEN == 45

\* The State column as AOS and other sources write it: "Full", "FULL",
\* "TwoWay", "Two-Way", "Init", "Down".
Full == <<70, 117, 108, 108>>
FULL == <<70, 85, 76, 76>>
TwoWay == <<84, 119, 111, 87, 97, 121>>
Two_Way == <<84, 119, 111, HYPHEN, 87, 97, 121>>
InitState == <<73, 110, 105, 116>>
DownState == <<68, 111, 119, 110>>

NeighborStates == {Full, FULL, TwoWay, Two_Way, InitState, DownState}

\* str.lower()
lower(text) == [i \in 1..Len(text) |-> Lower(text[i])]

\* A line of the output: a row of six columns or more with its State, a
\* line of fewer than six columns, or a line the parser skips (empty, a
\* rule, a total, the header).
NeighborRow(state) == [kind |-> "row", state |-> state]
ShortLine == [kind |-> "short", state |-> <<>>]
SkippedLine == [kind |-> "skipped", state |-> <<>>]

OspfLines == {NeighborRow(s) : s \in NeighborStates} \cup {ShortLine, SkippedLine}

MaxNeighbors == 3

OspfIdle ==
    /\ ospf_results = [ran |-> FALSE, lines |-> <<>>]
    /\ ospf_line = 0
    /\ ospf_neighbors = <<>>
    /\ neighbor_i = 0
    /\ issues = <<>>
    /\ apc = "idle"

\* After the command loop: the command ran and its stdout is in results,
\* or it raised and was passed over.
OspfInit ==
    /\ ospf_results \in [ran : BOOLEAN,
                         lines : UNION {[1..n -> OspfLines] : n \in 0..MaxNeighbors}]
    /\ ~ospf_results.ran => ospf_results.lines = <<>>
    /\ ospf_line = 1
    /\ ospf_neighbors = <<>>
    /\ neighbor_i = 1
    /\ issues = <<>>
    /\ apc = "parse"

\* One turn of the loop of parse_show_ip_ospf_neighbor: a line of six
\* parts or more is a neighbor whose state is the sixth part.
ParseNeighborLine ==
    /\ apc = "parse"
    /\ ospf_results.ran
    /\ ospf_line <= Len(ospf_results.lines)
    /\ LET line == ospf_results.lines[ospf_line]
       IN  ospf_neighbors' = IF line.kind = "row"
                             THEN Append(ospf_neighbors, [state |-> line.state])
                             ELSE ospf_neighbors
    /\ ospf_line' = ospf_line + 1
    /\ UNCHANGED <<ospf_results, neighbor_i, issues, apc>>
    /\ OspfFrame

\* The parser returns, or there was no output to parse.
ParseDone ==
    /\ apc = "parse"
    /\ ~ospf_results.ran \/ ospf_line > Len(ospf_results.lines)
    /\ apc' = "detect"
    /\ UNCHANGED <<ospf_results, ospf_line, ospf_neighbors, neighbor_i, issues>>
    /\ OspfFrame

\* if neighbor.get('state', '').lower() not in ['full', 'two-way']; the
\* issue names neighbor.get('neighbor_id'), a key the parser does not set.
DetectIssue ==
    /\ apc = "detect"
    /\ neighbor_i <= Len(ospf_neighbors)
    /\ LET neighbor == ospf_neighbors[neighbor_i]
       IN  issues' = IF lower(neighbor.state) \notin {lower(Full), lower(Two_Way)}
                     THEN Append(issues, [neighbor_id |-> "None", state |-> neighbor.state])
                     ELSE issues
    /\ neighbor_i' = neighbor_i + 1
    /\ UNCHANGED <<ospf_results, ospf_line, ospf_neighbors, apc>>
    /\ OspfFrame

RoutingAuditReturn ==
    /\ apc = "detect"
    /\ neighbor_i > Len(ospf_neighbors)
    /\ apc' = "returned"
    /\ UNCHANGED <<ospf_results, ospf_line, ospf_neighbors, neighbor_i, issues>>
    /\ OspfFrame

OspfNext ==
    \/ ParseNeighborLine
    \/ ParseDone
    \/ DetectIssue
    \/ RoutingAuditReturn

-----------------------------------------------------------------------------
(* The inventory: InventoryStore built from the configuration and changed   *)
(* by concurrent add_device_if_absent and update_device_facts               *)

InventoryFrame == UNCHANGED <<pvars, rvars, cvars, hvars, ovars, svars, zvars, mvars, avars, kvars>>

DeviceIds == {"sw1", "sw2"}

\* Device.host is a str; "" is the one that is falsy.
DeviceHosts == {"", "10.0.0.1", "10.0.0.2"}

\* Device.facts, None or {} (they merge alike), or one collected fact.
NoFacts == <<>>
FactsValues == {NoFacts, [model |-> "OS6860"], [model |-> "OS6900"]}

Device(id, host, facts) == [id |-> id, host |-> host, facts |-> facts]

NewDevices == {Device(id, host, NoFacts) : id \in DeviceIds, host \in DeviceHosts}

MaxDevices == 2

EmptyDict == <<>>

\* dict[key] = value
SetItem(dict, key, value) ==
    [k \in DOMAIN dict \cup {key} |-> IF k = key THEN value ELSE dict[k]]

\* {d.id: d for d in devices}: a later device replaces an earlier one of
\* the same id.
RECURSIVE DictById(_)
DictById(devices) ==
    IF devices = <<>> THEN EmptyDict
    ELSE LET d == devices[Len(devices)]
         IN  SetItem(DictById(SubSeq(devices, 1, Len(devices) - 1)), d.id, d)

\* {d.host: d.id for d in devices if d.host}
RECURSIVE DictByHost(_)
DictByHost(devices) ==
    IF devices = <<>> THEN EmptyDict
    ELSE LET d == devices[Len(devices)]
             before == DictByHost(SubSeq(devices, 1, Len(devices) - 1))
         IN  IF d.host # "" THEN SetItem(before, d.host, d.id) ELSE before

\* merged = dict(d.facts or {}); merged.update(facts)
MergeFacts(old, facts) ==
    [k \in DOMAIN old \cup DOMAIN facts |-> IF k \in DOMAIN facts THEN facts[k] ELSE old[k]]

InventoryIdle ==
    /\ cfg_devices = <<>>
    /\ devices_by_id = EmptyDict
    /\ device_id_by_host = EmptyDict
    /\ inventory_lock = 0
    /\ ipc = [t \in Threads |-> "idle"]
    /\ inv_returned = [t \in Threads |-> "None"]

\* InventoryStore.__init__ over the devices of the configuration.
InventoryInit ==
    /\ cfg_devices \in UNION {[1..n -> NewDevices] : n \in 0..MaxDevices}
    /\ devices_by_id = DictById(cfg_devices)
    /\ device_id_by_host = DictByHost(cfg_devices)
    /\ inventory_lock = 0
    /\ ipc = [t \in Threads |-> "idle"]
    /\ inv_returned = [t \in Threads |-> "None"]

\* A thread calls add_device_if_absent or update_device_facts and reaches
\* "with self._lock".
InventoryCall(t) ==
    /\ ipc[t] = "idle"
    /\ ipc' = [ipc EXCEPT ![t] = "waiting"]
    /\ UNCHANGED <<cfg_devices, devices_by_id, device_id_by_host, inventory_lock,
                   inv_returned>>
    /\ InventoryFrame

InventoryAcquire(t) ==
    /\ ipc[t] = "waiting"
    /\ inventory_lock = 0
    /\ inventory_lock' = t
    /\ ipc' = [ipc EXCEPT ![t] = "locked"]
    /\ UNCHANGED <<cfg_devices, devices_by_id, device_id_by_host, inv_returned>>
    /\ InventoryFrame

\* The body of add_device_if_absent and the release of the lock: False for
\* a known id or a known host, else both maps are written.
add_device_if_absent(t) ==
    /\ ipc[t] = "locked"
    /\ inventory_lock = t
    /\ \E new_device \in NewDevices :
        IF new_device.id \in DOMAIN devices_by_id
        THEN /\ inv_returned' = [inv_returned EXCEPT ![t] = "False"]
             /\ UNCHANGED <<devices_by_id, device_id_by_host>>
        ELSE IF new_device.host # "" /\ new_device.host \in DOMAIN device_id_by_host
        THEN /\ inv_returned' = [inv_returned EXCEPT ![t] = "False"]
             /\ UNCHANGED <<devices_by_id, device_id_by_host>>
        ELSE /\ devices_by_id' = SetItem(devices_by_id, new_device.id, new_device)
             /\ device_id_by_host' = IF new_device.host # ""
                                     THEN SetItem(device_id_by_host, new_device.host, new_device.id)
                                     ELSE device_id_by_host
             /\ inv_returned' = [inv_returned EXCEPT ![t] = "True"]
    /\ inventory_lock' = 0
    /\ ipc' = [ipc EXCEPT ![t] = "idle"]
    /\ UNCHANGED cfg_devices
    /\ InventoryFrame

\* The body of update_device_facts and the release of the lock: KeyError
\* for an unknown id, else the device is replaced by a copy with the
\* merged facts.
update_device_facts(t) ==
    /\ ipc[t] = "locked"
    /\ inventory_lock = t
    /\ \E device_id \in DeviceIds, facts \in FactsValues :
        IF device_id \notin DOMAIN devices_by_id
        THEN /\ inv_returned' = [inv_returned EXCEPT ![t] = "KeyError"]
             /\ UNCHANGED devices_by_id
        ELSE LET d == devices_by_id[device_id]
             IN  /\ devices_by_id' =
                        SetItem(devices_by_id, device_id,
                                [d EXCEPT !.facts = MergeFacts(d.facts, facts)])
                 /\ inv_returned' = [inv_returned EXCEPT ![t] = "None"]
    /\ inventory_lock' = 0
    /\ ipc' = [ipc EXCEPT ![t] = "idle"]
    /\ UNCHANGED <<cfg_devices, device_id_by_host>>
    /\ InventoryFrame

InventoryNext ==
    \E t \in Threads :
        \/ InventoryCall(t)
        \/ InventoryAcquire(t)
        \/ add_device_if_absent(t)
        \/ update_device_facts(t)

-----------------------------------------------------------------------------
(* The LLDP crawl: autodiscover_alcatel_switches                            *)

CrawlFrame == UNCHANGED <<pvars, rvars, cvars, hvars, ovars, svars, zvars, mvars, avars,
                          ivars>>

\* "auto:host:"
AutoHostPrefix == <<97, 117, 116, 111, 58, 104, 111, 115, 116, 58>>

IsAlnum(ch) == ch \in (97..122) \cup (48..57)

\* re.sub(r"[^a-z0-9]+", "-", v)
RECURSIVE SubNonAlnum(_)
SubNonAlnum(v) ==
    IF v = <<>> THEN <<>>
    ELSE IF IsAlnum(Head(v)) THEN <<Head(v)>> \o SubNonAlnum(Tail(v))
    ELSE <<HYPHEN>> \o SubNonAlnum(SubSeq(v, 1 + RunOf(v, (0..255) \ ((97..122) \cup (48..57))),
                                          Len(v)))

\* str.strip("-")
RECURSIVE StripHyphens(_)
StripHyphens(v) ==
    IF v # <<>> /\ Head(v) = HYPHEN THEN StripHyphens(Tail(v))
    ELSE IF v # <<>> /\ v[Len(v)] = HYPHEN THEN StripHyphens(SubSeq(v, 1, Len(v) - 1))
    ELSE v

safe_id_fragment(value) == StripHyphens(SubNonAlnum(lower(Strip(value))))

auto_device_id(host) == AutoHostPrefix \o safe_id_fragment(host)

\* Hosts as LLDP reports them: "s" (the seed's), "a", "A" and "a.".
SeedHost == <<Ord.s>>
CrawlHosts == {SeedHost, <<Ord.a>>, <<65>>, <<Ord.a, DOT>>}

\* The seed's id: one the configuration gave ("c"), or the automatic one.
SeedIds == {<<Ord.c>>, auto_device_id(SeedHost)}

CrawlDevice(id, host) == [id |-> id, host |-> host]

Queued(dev, depth) == [device |-> dev, depth |-> depth]

NoDevice == Queued(CrawlDevice(<<>>, <<>>), 0)

MaxDepth == 2

\* Who reports whom: the seed and "a" report any hosts, "A" and "a."
\* report the seed or nothing.
Topologies ==
    {[h \in CrawlHosts |-> IF h = SeedHost THEN n1 ELSE IF h = <<Ord.a>> THEN n2 ELSE n3] :
        n1 \in SUBSET CrawlHosts, n2 \in SUBSET CrawlHosts, n3 \in {{}, {SeedHost}}}

CrawlIdle ==
    /\ topology = [h \in CrawlHosts |-> {}]
    /\ seed = CrawlDevice(<<>>, <<>>)
    /\ max_depth = 0
    /\ max_devices = 0
    /\ seen_hosts = {}
    /\ seen_device_ids = {}
    /\ queue = <<>>
    /\ crawl_device = NoDevice
    /\ neighbors = {}
    /\ created = <<>>
    /\ contacted = <<>>
    /\ kpc = "idle"

\* The locals as they are set up: queue = [(seed, 0)].
CrawlInit ==
    /\ topology \in Topologies
    /\ seed \in {CrawlDevice(id, SeedHost) : id \in SeedIds}
    /\ max_depth \in 0..MaxDepth
    /\ max_devices \in {1, 2, 200}
    /\ seen_hosts = {}
    /\ seen_device_ids = {}
    /\ queue = <<Queued(seed, 0)>>
    /\ crawl_device = NoDevice
    /\ neighbors = {}
    /\ created = <<>>
    /\ contacted = <<>>
    /\ kpc = "seed"

\* _enqueue(dev, depth): whether it appends.
Enqueues(dev, depth, seen_ids) ==
    /\ depth <= max_depth
    /\ Cardinality(seen_ids) < max_devices
    /\ dev.id \notin seen_ids

\* seen_hosts.add(seed.host); _enqueue(seed, 0)
EnqueueSeed ==
    /\ kpc = "seed"
    /\ seen_hosts' = IF seed.host # <<>> THEN seen_hosts \cup {seed.host} ELSE seen_hosts
    /\ IF Enqueues(seed, 0, seen_device_ids)
       THEN /\ seen_device_ids' = seen_device_ids \cup {seed.id}
            /\ queue' = Append(queue, Queued(seed, 0))
       ELSE UNCHANGED <<seen_device_ids, queue>>
    /\ kpc' = "loop"
    /\ UNCHANGED <<topology, seed, max_depth, max_devices, crawl_device, neighbors,
                   created, contacted>>
    /\ CrawlFrame

\* One turn of the while loop up to the for loop: the head of the queue is
\* taken, the device is contacted for its facts and its LLDP tables, and
\* the neighbors are parsed, or the run raised and the turn ends.
Dequeue ==
    /\ kpc = "loop"
    /\ queue # <<>>
    /\ Cardinality(seen_device_ids) <= max_devices
    /\ crawl_device' = Head(queue)
    /\ queue' = Tail(queue)
    /\ created' = Append(created, Head(queue).device.id)
    /\ contacted' = Append(contacted, Head(queue).device)
    /\ \/ /\ neighbors' = topology[Head(queue).device.host]
          /\ kpc' = "neighbors"
       \/ /\ neighbors' = {}
          /\ kpc' = "loop"
    /\ UNCHANGED <<topology, seed, max_depth, max_devices, seen_hosts, seen_device_ids>>
    /\ CrawlFrame

\* One turn of the for loop: a host seen before is passed over; a new one
\* is noted and a device with the automatic id is handed to _enqueue.
Neighbor ==
    /\ kpc = "neighbors"
    /\ \E host \in neighbors :
        /\ neighbors' = neighbors \ {host}
        /\ IF host \in seen_hosts
           THEN UNCHANGED <<seen_hosts, seen_device_ids, queue>>
           ELSE /\ seen_hosts' = seen_hosts \cup {host}
                /\ LET new_dev == CrawlDevice(auto_device_id(host), host)
                   IN  IF Enqueues(new_dev, crawl_device.depth + 1, seen_device_ids)
                       THEN /\ seen_device_ids' = seen_device_ids \cup {new_dev.id}
                            /\ queue' = Append(queue, Queued(new_dev, crawl_device.depth + 1))
                       ELSE UNCHANGED <<seen_device_ids, queue>>
    /\ UNCHANGED <<topology, seed, max_depth, max_devices, crawl_device, created,
                   contacted, kpc>>
    /\ CrawlFrame

\* The for loop is over.
NeighborsDone ==
    /\ kpc = "neighbors"
    /\ neighbors = {}
    /\ kpc' = "loop"
    /\ UNCHANGED <<topology, seed, max_depth, max_devices, seen_hosts, seen_device_ids,
                   queue, crawl_device, neighbors, created, contacted>>
    /\ CrawlFrame

\* The while loop is over.
CrawlReturn ==
    /\ kpc = "loop"
    /\ queue = <<>> \/ Cardinality(seen_device_ids) > max_devices
    /\ kpc' = "returned"
    /\ UNCHANGED <<topology, seed, max_depth, max_devices, seen_hosts, seen_device_ids,
                   queue, crawl_device, neighbors, created, contacted>>
    /\ CrawlFrame

CrawlNext ==
    \/ EnqueueSeed
    \/ Dequeue
    \/ Neighbor
    \/ NeighborsDone
    \/ CrawlReturn

-----------------------------------------------------------------------------
(* SpecPolicy: sanitize_command over bounded inputs *)

\* Policies the inputs are drawn from: allow and deny lists of literal
\* patterns, both deny_multiline settings, a limit at or just under MaxLen.
PolicyInputs ==
    [allow : {<<>>, <<<<97>>>>, <<<<98, 97>>, <<97>>>>},
     deny : {<<>>, <<<<97, 98>>>>},
     max_command_length : {MaxLen - 1, MaxLen},
     deny_multiline : BOOLEAN,
     strip_ansi : {TRUE}]

NoPolicy == [allow |-> <<>>, deny |-> <<>>, max_command_length |-> 0,
             deny_multiline |-> TRUE, strip_ansi |-> TRUE]

PolicyIdle ==
    /\ command = <<>>
    /\ policy = NoPolicy
    /\ sanitized = NoResult
    /\ ppc = "idle"

PolicyInit ==
    /\ command \in StringsUpTo(MaxLen)
    /\ policy \in PolicyInputs
    /\ sanitized = NoResult
    /\ ppc = "input"

Sanitize ==
    /\ ppc = "input"
    /\ sanitized' = sanitize_command(command, policy)
    /\ ppc' = "done"
    /\ UNCHANGED <<command, policy>>
    /\ UNCHANGED <<rvars, cvars, hvars, ovars, svars, zvars, mvars, avars, ivars, kvars>>

PolicyNext == Sanitize

InitPolicy == PolicyInit /\ RunIdle /\ CallIdle /\ HostsIdle /\ OutputIdle
    /\ SseIdle /\ ZoneIdle
    /\ HealthIdle
    /\ OspfIdle
    /\ InventoryIdle
    /\ CrawlIdle

SpecPolicy == InitPolicy /\ [][PolicyNext]_vars

InitRun == RunInit /\ PolicyIdle /\ CallIdle /\ HostsIdle /\ OutputIdle
    /\ SseIdle /\ ZoneIdle
    /\ HealthIdle
    /\ OspfIdle
    /\ InventoryIdle
    /\ CrawlIdle

SpecRun == InitRun /\ [][RunNext]_vars

InitCall == CallInit /\ RunIdle /\ HostsIdle /\ OutputIdle /\ SseIdle /\ ZoneIdle
    /\ HealthIdle
    /\ OspfIdle
    /\ InventoryIdle
    /\ CrawlIdle

SpecCall == InitCall /\ [][CallNext]_vars

InitHosts == HostsInit /\ PolicyIdle /\ RunIdle /\ CallIdle /\ OutputIdle
    /\ SseIdle /\ ZoneIdle
    /\ HealthIdle
    /\ OspfIdle
    /\ InventoryIdle
    /\ CrawlIdle

SpecHosts == InitHosts /\ [][HostsNext]_vars

InitOutput == OutputInit /\ PolicyIdle /\ RunIdle /\ CallIdle /\ HostsIdle
    /\ SseIdle /\ ZoneIdle
    /\ HealthIdle
    /\ OspfIdle
    /\ InventoryIdle
    /\ CrawlIdle

SpecOutput == InitOutput /\ [][OutputNext]_vars

InitSse == SseInit /\ PolicyIdle /\ RunIdle /\ CallIdle /\ HostsIdle /\ OutputIdle
    /\ ZoneIdle
    /\ HealthIdle
    /\ OspfIdle
    /\ InventoryIdle
    /\ CrawlIdle

SpecSse == InitSse /\ [][SseNext]_vars

InitZone == ZoneInit /\ PolicyIdle /\ RunIdle /\ CallIdle /\ HostsIdle /\ OutputIdle
    /\ SseIdle
    /\ HealthIdle
    /\ OspfIdle
    /\ InventoryIdle
    /\ CrawlIdle

SpecZone == InitZone /\ [][ZoneNext]_vars

InitHealth == HealthInit /\ PolicyIdle /\ RunIdle /\ CallIdle /\ HostsIdle
    /\ OutputIdle /\ SseIdle /\ ZoneIdle
    /\ OspfIdle
    /\ InventoryIdle
    /\ CrawlIdle

SpecHealth == InitHealth /\ [][HealthNext]_vars

InitOspf == OspfInit /\ PolicyIdle /\ RunIdle /\ CallIdle /\ HostsIdle
    /\ OutputIdle /\ SseIdle /\ ZoneIdle /\ HealthIdle
    /\ InventoryIdle
    /\ CrawlIdle

SpecOspf == InitOspf /\ [][OspfNext]_vars

InitInventory == InventoryInit /\ PolicyIdle /\ RunIdle /\ CallIdle
    /\ HostsIdle /\ OutputIdle /\ SseIdle /\ ZoneIdle /\ HealthIdle
    /\ OspfIdle
    /\ CrawlIdle

SpecInventory == InitInventory /\ [][InventoryNext]_vars

InitCrawl == CrawlInit /\ PolicyIdle /\ RunIdle /\ CallIdle /\ HostsIdle
    /\ OutputIdle /\ SseIdle /\ ZoneIdle /\ HealthIdle /\ OspfIdle
    /\ InventoryIdle

SpecCrawl == InitCrawl /\ [][CrawlNext]_vars

-----------------------------------------------------------------------------
(* C1 *)

\* C1: for every tool and every command that a handler passes to the SSH
\* executor, that command equals the output of sanitize() applied to the
\* template- or argument-derived string; no handler sends the executor a
\* command that did not come out of sanitize().
C1_SentCommandsComeFromSanitize ==
    \A i \in 1..Len(trace) :
        trace[i].op = "run" =>
            sanitize_command(trace[i].raw, policy) = Returned(trace[i].cmd)

-----------------------------------------------------------------------------
(* C2 *)

\* C2: when the command policy rejects a command, the call ends in an error
\* and no SSH session is opened for it: the executor's run is never invoked
\* with the rejected command.
C2_RejectionEndsCallWithoutRun ==
    \A i \in 1..Len(trace) :
        trace[i].op = "reject" =>
            /\ \A k \in 1..Len(trace) :
                  trace[k].op = "run" =>
                      /\ trace[k].step # trace[i].step
                      /\ trace[k].cmd # trace[i].raw
                      /\ trace[k].cmd # Strip(trace[i].raw)
            /\ cpc = "responded" => response.status = "error"

-----------------------------------------------------------------------------
(* C4 *)

\* C4: every rejection of a command by the command policy is reported to the
\* caller as a tool error whose code is invalid_command.
C4_RejectionsAreInvalidCommand ==
    (cpc = "responded" /\ \E i \in 1..Len(trace) : trace[i].op = "reject") =>
        /\ response.status = "error"
        /\ response.code = "invalid_command"

-----------------------------------------------------------------------------
(* C8 *)

\* The pause the caller asked for: wait_seconds, 5 when it is not supplied.
RequestedWait(w) == IF w.kind = "int" THEN w.value ELSE 5

\* C8: aos.poe.restart sends the disable command, then pauses for the
\* requested wait_seconds (5 when not supplied), and only then sends the
\* enable command: for every accepted wait_seconds value the pause between
\* the two commands is that value.
C8_PauseIsWaitSeconds ==
    tool = "aos.poe.restart" =>
        /\ \A i \in 1..Len(trace) :
              trace[i].op = "sleep" => trace[i].secs = RequestedWait(args.wait)
        /\ \A i \in 1..Len(trace) :
              (trace[i].op = "run" /\ trace[i].step = 3) =>
                  /\ i = 3
                  /\ trace[1].op = "run" /\ trace[1].step = 1
                  /\ trace[2].op = "sleep"
        /\ (cpc = "responded" /\ Len(trace) >= 1 /\ trace[1].outcome = "SSHResult") =>
              (Len(trace) >= 2 /\ trace[2].op = "sleep")

-----------------------------------------------------------------------------
(* C9 *)

\* The steps the specification's tool catalog marks required (R), by
\* position in the handler's command list.
RequiredSteps(t, a) ==
    CASE t = "aos.port.discover" -> 1..4
      [] t = "aos.routing.audit" -> IF a.text = <<>> THEN {1} ELSE {}
      [] t \in {"aos.chassis.status", "aos.lacp.info", "aos.ntp.status",
                "aos.dhcp.relay.info"} -> {1}
      [] t = "aos.mac.lookup" -> {}
      [] t = "aos.poe.restart" -> {1, 3}
      [] OTHER -> 1..3

\* C9: in a multi-command handler, when a command marked required fails,
\* the first such failure aborts the handler (no later command is sent, no
\* ok result is returned) and the call surfaces as ssh_error.
C9_RequiredFailureAborts ==
    \A i \in 1..Len(trace) :
        (/\ trace[i].op = "run"
         /\ trace[i].outcome = "SSHExecutionError"
         /\ trace[i].step \in RequiredSteps(tool, args)) =>
            /\ i = Len(trace)
            /\ cpc = "responded" =>
                  (response.status = "error" /\ response.code = "ssh_error")

-----------------------------------------------------------------------------
(* C3 *)

\* What the claim says decides acceptance, on the trimmed command.
C3_Accepts(cmd0, pol) ==
    LET t == Strip(cmd0) IN
    /\ t # <<>>
    /\ Len(t) <= pol.max_command_length
    /\ \A i \in 1..Len(t) : t[i] >= 32 \/ t[i] = TAB
    /\ pol.deny_multiline => (~Contains(t, LF) /\ ~Contains(t, CR))
    /\ \E i \in 1..Len(pol.allow) :
          Len(pol.allow[i]) <= Len(t) /\ \A k \in 1..Len(pol.allow[i]) : t[k] = pol.allow[i][k]
    /\ \A i \in 1..Len(pol.deny) :
          ~(Len(pol.deny[i]) <= Len(t) /\ \A k \in 1..Len(pol.deny[i]) : t[k] = pol.deny[i][k])

\* C3: sanitize(command, policy) succeeds exactly when the trimmed command is
\* non-empty, within max_command_length, free of control characters other
\* than tab, free of newline and carriage return under deny_multiline,
\* matched at its start by an allow pattern and by no deny pattern; on
\* success it returns the trimmed command, and otherwise it fails.
C3_SanitizeExact ==
    ppc = "done" =>
        IF C3_Accepts(command, policy)
        THEN sanitized = Returned(Strip(command))
        ELSE sanitized.kind = "ValueError"

\* C3 witness: a command with whitespace on both sides was accepted and came
\* back trimmed.
C3_Witness ==
    /\ ppc = "done"
    /\ sanitized.kind = "value"
    /\ IsSpace(command[1])
    /\ IsSpace(command[Len(command)])
    /\ sanitized.value = Strip(command)

-----------------------------------------------------------------------------
(* C5 *)

\* Position of the first event e in the network trace, 0 if absent.
FirstIndex(e) ==
    IF \E i \in 1..Len(net) : net[i] = e
    THEN CHOOSE i \in 1..Len(net) : net[i] = e /\ \A k \in 1..(i - 1) : net[k] # e
    ELSE 0

\* Every session opened for `who` is closed later in the trace.
ClosedAfterOpen(who) ==
    \A i \in 1..Len(net) :
        net[i] = <<who, "open">> => \E k \in (i + 1)..Len(net) : net[k] = <<who, "close">>

\* C5: on every exit path of run, every SSH session that was opened is closed
\* before run returns, the device session first and the jump session second.
C5_AllSessionsClosed ==
    rpc = "done" =>
        /\ ClosedAfterOpen("device")
        /\ ClosedAfterOpen("jump")
        /\ (FirstIndex(<<"device", "close">>) # 0 /\ FirstIndex(<<"jump", "close">>) # 0)
              => FirstIndex(<<"device", "close">>) < FirstIndex(<<"jump", "close">>)

-----------------------------------------------------------------------------
(* C6 *)

\* The username or the credential of the device cannot be produced from the
\* device entry, the zone resolver, the runner's defaults or the environment.
CredentialsMissing ==
    \/ resolve_username(device, zone_creds, runner, environ).kind # "value"
    \/ resolve_auth(device, zone_creds, runner, environ).kind # "value"
    \/ connect_secret(resolve_auth(device, zone_creds, runner, environ).value, environ) # "ok"

\* C6: when the credentials needed for a device are missing, run fails with
\* ssh_error before any network activity: no connection to a jump host or to
\* the device has been attempted at the moment of failure.
C6_MissingCredentialsFailEarly ==
    (rpc = "done" /\ CredentialsMissing) =>
        /\ ErrorCode(raised) = "ssh_error"
        /\ net = <<>>

-----------------------------------------------------------------------------
(* C7 *)

\* The steps the claim lists: opening a session, authenticating, opening the
\* jump channel, executing, reading.
SessionSteps ==
    {"lookup", "build_client", "resolve_password", "connect", "authenticate",
     "channel", "pre_command", "exec", "read"}

\* C7: any failure while opening a session (jump host or device),
\* authenticating, opening the jump channel, or executing and reading from
\* the channel is reported with error code ssh_error and no other code.
C7_SessionFailuresAreSshError ==
    (rpc = "done" /\ failed_at[2] \in SessionSteps) => ErrorCode(raised) = "ssh_error"

-----------------------------------------------------------------------------
(* C10 *)

\* C10: the result's truncated flag is true if the raw device output (stdout
\* or stderr) is longer than max_output_bytes, and false otherwise; output
\* of exactly max_output_bytes bytes is not marked truncated.
C10_TruncatedIffOverLimit ==
    result.kind = "SSHResult" =>
        (result.truncated <=>
            (Len(raw_stdout) > MaxOutputBytes \/ Len(raw_stderr) > MaxOutputBytes))

\* C10 witness: stdout of exactly max_output_bytes bytes came back whole and
\* unflagged.
C10_Witness ==
    /\ result.kind = "SSHResult"
    /\ Len(raw_stdout) = MaxOutputBytes
    /\ Len(raw_stderr) <= MaxOutputBytes
    /\ result.stdout = raw_stdout
    /\ ~result.truncated

-----------------------------------------------------------------------------
(* C11 *)

\* C11: every result returned by the executor satisfies len(stdout) <=
\* max_output_bytes and len(stderr) <= max_output_bytes, whatever amount of
\* output the device produces.
C11_OutputWithinLimit ==
    result.kind = "SSHResult" =>
        /\ Len(result.stdout) <= MaxOutputBytes
        /\ Len(result.stderr) <= MaxOutputBytes

\* C11 witness: the device wrote more than the limit on both streams and the
\* result came back flagged, with stdout cut to the limit.
C11_Witness ==
    /\ result.kind = "SSHResult"
    /\ Len(raw_stdout) > MaxOutputBytes + 1
    /\ Len(raw_stderr) > MaxOutputBytes + 1
    /\ result.truncated
    /\ result.stdout = SubSeq(raw_stdout, 1, MaxOutputBytes)

-----------------------------------------------------------------------------
(* C12 *)

\* C12: when the transport requires an authz context and a well-formed
\* POST /v1/tools/call arrives whose context has no subject, the answer is
\* HTTP 400 and call_tool is never invoked for that request.
C12_MissingSubjectIs400 ==
    (transport = "unary" /\ require_authz_context /\ ~Truthy(context.subject)) =>
        /\ cpc \notin {"call_tool", "handler", "except"}
        /\ cpc = "responded" => (response.http = 400 /\ trace = <<>>)

-----------------------------------------------------------------------------
(* C13 *)

\* The call reached call_tool and tools_call answered it.
DispatchedUnary ==
    /\ cpc = "responded"
    /\ transport = "unary"
    /\ response.shape = "ToolCallResponse"
    /\ response.http = 200

-----------------------------------------------------------------------------
(* C14 *)

\* C14: an exception of a tool call that is neither a schema/value error,
\* nor a policy rejection, nor an SSH failure (nor the KeyError of an
\* unknown tool) is answered with code internal_error and the fixed
\* message "Internal server error".
C14_OtherExceptionsAreInternalError ==
    (cpc = "responded" /\ call_raised \in {"RuntimeError", "AttributeError"}) =>
        /\ response.code = "internal_error"
        /\ response.message = "Internal server error"

-----------------------------------------------------------------------------
(* C15 *)

\* C15: in every error ToolCallResponse data and content are null, and in
\* every ToolCallResponse, ok or error, meta.tool is the requested tool.
C15_ErrorShapeAndMetaTool ==
    (cpc = "responded" /\ response.shape = "ToolCallResponse") =>
        /\ response.status = "error" =>
                (response.data = "null" /\ response.content = "null")
        /\ response.meta_tool = tool

-----------------------------------------------------------------------------
(* C16 *)

\* The commands of the runs that returned, in the order of the runs: what
\* the device was sent on behalf of the handler.
RECURSIVE SentCommands(_)
SentCommands(tr) ==
    IF tr = <<>> THEN <<>>
    ELSE (IF Head(tr).op = "run" /\ Head(tr).outcome = "SSHResult"
          THEN <<Head(tr).cmd>> ELSE <<>>) \o SentCommands(Tail(tr))

\* The handler returns a commands_executed list.
ReturnsCommandList ==
    \E i \in 1..Len(steps) : steps[i].kind = "cmd" /\ steps[i].listed

\* C16: the commands_executed list a handler returns is exactly the
\* sequence of command strings sent to the device, in the order sent.
C16_CommandsExecutedIsWhatWasSent ==
    (cpc = "responded" /\ ~response.isError /\ ReturnsCommandList) =>
        response.commands_executed = SentCommands(trace)

-----------------------------------------------------------------------------
(* C17 *)

AllDone == hpc # <<>> /\ \A t \in Threads : hpc[t] = "done"

InUpdate == {t \in DOMAIN hpc : hpc[t] \in {"read", "write", "unlock"}}

\* The line without the newline that ends it.
Chomp(line) ==
    IF line # <<>> /\ line[Len(line)] = LF THEN SubSeq(line, 1, Len(line) - 1) ELSE line

\* The text holds the line, as a line of its own.
HasLine(text, line) ==
    \E i \in 1..Len(readlines(text)) : Chomp(readlines(text)[i]) = Chomp(line)

\* One whole update of the file by thread t, nothing in between.
UpdateAlone(file, t) ==
    IF wrote[t] THEN File(writelines(update_lines(read_lines(file), hostname[t])))
    ELSE file

\* The updates of the threads of ord, one after the other.
RECURSIVE UpdatesInOrder(_, _)
UpdatesInOrder(file, ord) ==
    IF ord = <<>> THEN file
    ELSE UpdatesInOrder(UpdateAlone(file, Head(ord)), Tail(ord))

\* The file can be read and its last line ends in a newline.
Regular(file) ==
    ~file.exists \/
    (~ReadRaises(file.text) /\ (file.text = <<>> \/ file.text[Len(file.text)] = LF))

-----------------------------------------------------------------------------
(* C18 *)

\* Exactly one update has been written so far, by the thread that took the
\* lock first.
OneUpdateWritten ==
    /\ order # <<>>
    /\ hpc[order[1]] \in {"unlock", "done"}
    /\ wrote[order[1]]
    /\ \A i \in 2..Len(order) : hpc[order[i]] \in {"read", "write"}

\* C18: an update replaces every prior line of the same hostname with the
\* new key and preserves all other lines and comments: the new line is in
\* the file, no other entry of that hostname is, and every line of the
\* file before that was a comment, blank or another host's is still there
\* unchanged.
C18_ReplacesAndPreserves ==
    OneUpdateWritten =>
        LET h == hostname[order[1]]
            before == readlines(known_hosts0.text)
            after == readlines(known_hosts.text)
        IN  /\ HasLine(known_hosts.text, new_line(h))
            /\ \A i \in 1..Len(after) :
                  IsEntryOf(after[i], h) => Chomp(after[i]) = Chomp(new_line(h))
            /\ \A i \in 1..Len(before) :
                  ~IsEntryOf(before[i], h) => HasLine(known_hosts.text, before[i])

-----------------------------------------------------------------------------
(* C19 *)

\* The rule's regex matches somewhere in text.
RuleMatches(rule, text) ==
    \E i \in 1..Len(text) : RuleAt(rule.pattern, SubSeq(text, i, Len(text))).space > 0

\* Every match of the rule in text is one whose second group is "***".
OnlyRedactedMatches(rule, text) ==
    \A i \in 1..Len(text) :
        LET s == SubSeq(text, i, Len(text))
            at == RuleAt(rule.pattern, s)
        IN  at.space > 0 =>
                SubSeq(s, 2 + at.space, 1 + at.space + at.word) = rule.replacement

CliReturned ==
    /\ opc = "returned"
    /\ out_tool = "aos.cli.readonly"
    /\ command_policy.redactions # <<>>

-----------------------------------------------------------------------------
(* C20 *)

\* sanitize_output: ANSI stripping when enabled, then the redaction list in
\* order.
sanitize_output(text, pol) ==
    apply_redactions(IF pol.strip_ansi THEN strip_ansi(text) ELSE text, pol.redactions)

\* C20: for aos.cli.readonly, aos.diag.ping and aos.diag.traceroute alike
\* the stdout and the stderr returned to the caller are the sanitized
\* output of the device.
C20_BothStreamsSanitized ==
    opc = "returned" =>
        /\ returned.stdout = sanitize_output(res.stdout, command_policy)
        /\ returned.stderr = sanitize_output(res.stderr, command_policy)

-----------------------------------------------------------------------------
(* C21 *)

\* C21, the command half: sanitizing again a command that sanitize_command
\* accepted returns it unchanged.
C21_SanitizeCommandIdempotent ==
    (ppc = "done" /\ sanitized.kind = "value") =>
        sanitize_command(sanitized.value, policy) = sanitized

\* C21: sanitization is idempotent; for the output, sanitizing again what
\* aos.cli.readonly returned (ANSI stripping, then the redaction rules)
\* leaves it unchanged.
C21_SanitizeOutputIdempotent ==
    (opc = "returned" /\ out_tool = "aos.cli.readonly") =>
        /\ sanitize_output(returned.stdout, command_policy) = returned.stdout
        /\ sanitize_output(returned.stderr, command_policy) = returned.stderr

-----------------------------------------------------------------------------
(* C22 *)

\* Some rule of the list, applied in its turn, changed the text.
RECURSIVE AnyRuleChanged(_, _)
AnyRuleChanged(text, redactions) ==
    /\ redactions # <<>>
    /\ \/ re_sub(Head(redactions), text) # text
       \/ AnyRuleChanged(re_sub(Head(redactions), text), Tail(redactions))

\* The text the redactions of handle_cli_readonly start from.
BeforeRedaction(text) == IF command_policy.strip_ansi THEN strip_ansi(text) ELSE text

\* C22: in the result of aos.cli.readonly, redacted is true if and only if
\* at least one redaction rule changed the text of stdout or of stderr
\* when it was applied.
C22_RedactedIffARuleChangedText ==
    (opc = "returned" /\ out_tool = "aos.cli.readonly") =>
        (returned.redacted <=>
            \/ AnyRuleChanged(BeforeRedaction(res.stdout), command_policy.redactions)
            \/ AnyRuleChanged(BeforeRedaction(res.stderr), command_policy.redactions))

C22_Witness ==
    /\ opc = "returned"
    /\ out_tool = "aos.cli.readonly"
    /\ returned.redacted
    /\ returned.stdout = BeforeRedaction(res.stdout)
    /\ returned.stderr # BeforeRedaction(res.stderr)

-----------------------------------------------------------------------------
(* C23 *)

\* The endpoint let the request in and its body is a JSON-RPC request
\* object.
StreamedRequest ==
    /\ spc \notin {"idle", "endpoint", "refused"}
    /\ sse_request.body = "object"

\* C23: for every JSON-RPC request posted to the SSE endpoint (initialize,
\* tools/list, tools/call or an unknown method) the stream never holds
\* more than one frame, does not break, and once closed holds exactly one
\* data: frame with jsonrpc "2.0", the request id and exactly one of
\* result and error.
C23_OneFrameThenClose ==
    StreamedRequest =>
        /\ Len(frames) <= 1
        /\ spc # "broken"
        /\ spc \in {"yielded", "closed"} =>
              /\ Len(frames) = 1
              /\ frames[1].kind = "data"
              /\ frames[1].jsonrpc = "2.0"
              /\ frames[1].id = sse_request.id
              /\ ("result" \in frames[1].keys) # ("error" \in frames[1].keys)

C23_Witness ==
    /\ StreamedRequest
    /\ spc = "closed"
    /\ sse_request.method = "resources/list"
    /\ sse_request.id = "abc"
    /\ frames = <<ResultFrame("abc", "error_method_not_found")>>

-----------------------------------------------------------------------------
(* C25: the zone of a host                                                  *)

DotPositions(h) == {i \in 1..Len(h) : h[i] = DOT}

\* The text between two positions, both excluded.
Between(h, i, j) == SubSeq(h, i + 1, j - 1)

\* The four parts of a text with three dots, <<>> for any other text.
Parts(h) ==
    IF Cardinality(DotPositions(h)) # 3 THEN <<>>
    ELSE LET i == CHOOSE i \in DotPositions(h) : \A k \in DotPositions(h) : i <= k
             l == CHOOSE l \in DotPositions(h) : \A k \in DotPositions(h) : k <= l
             j == CHOOSE j \in DotPositions(h) : j # i /\ j # l
         IN  <<Between(h, 0, i), Between(h, i, j), Between(h, j, l),
               Between(h, l, Len(h) + 1)>>

\* a.b.c.d with each part a decimal number in 0..255.
IsDottedQuadInRange(h) ==
    /\ Parts(h) # <<>>
    /\ \A n \in 1..4 :
        /\ Parts(h)[n] # <<>>
        /\ \A k \in 1..Len(Parts(h)[n]) : Parts(h)[n][k] \in 48..57
        /\ int(Parts(h)[n]) \in 0..255

\* C25: for a host a.b.c.d with every octet in 0..255 the extracted zone
\* is b; for any other host, not a dotted quad or with an octet out of
\* range, the result is absent.
C25_ZoneIsSecondOctetElseAbsent ==
    zpc = "returned" /\ ~NoZoneConfig =>
        IF IsDottedQuadInRange(zhost)
        THEN zone_id = Returned(int(Parts(zhost)[2]))
        ELSE zone_id = None

-----------------------------------------------------------------------------
(* C24: the ordered list of credentials for a host                          *)

\* One of username and password has a value: its environment variable is
\* named, set and not empty, or it has a direct value.
EnvValue(env_name) ==
    IF env_name # "None" /\ env_name \in DOMAIN zenviron /\ zenviron[env_name] # ""
    THEN zenviron[env_name] ELSE "None"

ValueOf(env_name, direct) ==
    IF EnvValue(env_name) # "None" THEN EnvValue(env_name) ELSE direct

\* The entry for a configured credential, <<>> when it is not configured
\* or one of its two values is missing.
EntryOf(config, zone) ==
    IF /\ config.present
       /\ ValueOf(config.username_env, config.username) # "None"
       /\ ValueOf(config.password_env, config.password) # "None"
    THEN <<[username |-> ValueOf(config.username_env, config.username),
            password |-> ValueOf(config.password_env, config.password),
            zone_id |-> zone]>>
    ELSE <<>>

ZoneEntryOf(host) ==
    LET zone == extract_zone_from_ip(host)
    IN  IF zone.kind = "value" /\ zone.value \in DOMAIN zone_config.zones
        THEN EntryOf(zone_config.zones[zone.value], zone)
        ELSE <<>>

\* C24: the returned list is the global credential, if it is configured
\* and resolves, followed by the credential of the host's zone, if the
\* host has an extractable zone and that credential resolves, and nothing
\* else; an entry whose environment variables are missing is left out and
\* the call returns all the same.
C24_GlobalThenZoneNothingElse ==
    zpc = "returned" =>
        credentials_list = EntryOf(zone_config.global, None) \o ZoneEntryOf(zhost)

\* Both entries resolve from the environment, the global one first.
C24_Witness ==
    /\ zpc = "returned"
    /\ zone_config.global.username_env = "GU"
    /\ zone_config.zones[9].password_env = "ZP"
    /\ Len(credentials_list) = 2
    /\ credentials_list[1].zone_id = None
    /\ credentials_list[2].zone_id = Returned(9)

\* The global entry names a variable that is not set: it is left out and
\* the zone entry is the whole list.
C24_WitnessSkipped ==
    /\ zpc = "returned"
    /\ zone_config.global.present
    /\ "GP" \notin DOMAIN zenviron
    /\ zone_config.global.password_env = "GP"
    /\ Len(credentials_list) = 1
    /\ credentials_list[1].zone_id = Returned(9)

-----------------------------------------------------------------------------
(* C26: the overall status of show health                                   *)

Severity(status) ==
    CASE status = "OK" -> 0
      [] status = "WARNING" -> 1
      [] status = "CRITICAL" -> 2
      [] status = "DOWN" -> 3

\* The most severe status among the parsed rows, OK when there is none.
Worst(modules) ==
    IF modules = <<>> THEN "OK"
    ELSE LET i == CHOOSE i \in 1..Len(modules) :
                    \A j \in 1..Len(modules) :
                        Severity(modules[j].status) <= Severity(modules[i].status)
         IN  modules[i].status

\* C26: for the chassis table the overall status reported from show health
\* is the most severe status among all the parsed module rows, whatever
\* the order of the rows.
C26_OverallStatusIsWorstModule ==
    mpc = "returned" /\ ~health_output.resources =>
        overall_status = Worst(health_data.modules)

-----------------------------------------------------------------------------
(* C27: the issues of the routing audit                                     *)

\* A state that reads Full or TwoWay, in any case and with or without a
\* hyphen.
IsFullOrTwoWay(state) ==
    LET letters == SelectSeq(lower(state), LAMBDA ch : ch # HYPHEN)
    IN  letters \in {lower(Full), lower(TwoWay)}

IsIssueState(n) == ~IsFullOrTwoWay(n.state)

\* C27: the audit emits an issue for an OSPF neighbor exactly when its
\* state is neither Full nor TwoWay: the issues are, in order, those of
\* the neighbors in any other state.
C27_IssueIffNotFullOrTwoWay ==
    apc = "returned" =>
        [i \in 1..Len(issues) |-> [state |-> issues[i].state]]
            = SelectSeq(ospf_neighbors, IsIssueState)

-----------------------------------------------------------------------------
(* C28: aos.poe.restart re-enables the port                                 *)

\* runner.run returned for the disable command: it was sent.
DisableSent ==
    \E i \in 1..Len(trace) :
        trace[i].op = "run" /\ trace[i].step = 1 /\ trace[i].outcome = "SSHResult"

\* The enable command was handed to runner.run, whatever came of it.
EnableSent == \E i \in 1..Len(trace) : trace[i].op = "run" /\ trace[i].step = 3

\* C28: when aos.poe.restart has sent the disable command, it sends the
\* enable command before the call ends, whatever the outcome of the
\* disable step, of the wait or of the second policy check.
C28_DisableIsFollowedByEnable ==
    (tool = "aos.poe.restart" /\ cpc = "responded" /\ DisableSent) => EnableSent

-----------------------------------------------------------------------------
(* C29: the host index and the device map of the inventory agree            *)

\* C29: in every state of the store, from its construction on and under
\* any interleaving of add_device_if_absent and update_device_facts, each
\* entry of the host index names a stored device whose host is that host,
\* and no two stored devices have the same host (devices with an empty
\* host, which the index leaves out, aside).
C29_HostIndexAgreesWithDevices ==
    /\ \A h \in DOMAIN device_id_by_host :
        /\ device_id_by_host[h] \in DOMAIN devices_by_id
        /\ devices_by_id[device_id_by_host[h]].host = h
    /\ \A i, j \in DOMAIN devices_by_id :
        (i # j /\ devices_by_id[i].host # "") =>
            devices_by_id[i].host # devices_by_id[j].host

-----------------------------------------------------------------------------
(* C30: a crawl contacts each device at most once                           *)

\* C30: during one crawl each device, by id, is dequeued and contacted
\* over SSH at most once, the seed included, even when the topology has
\* cycles or a neighbor reports the seed.
C30_EachDeviceContactedAtMostOnce ==
    \A i, j \in 1..Len(contacted) :
        contacted[i].id = contacted[j].id => i = j

=============================================================================
